---- MODULE Spec2Model ----
(***************************************************************************)
(* A model of calour's experiment pipeline: read (io.py), the sorting      *)
(* functions (sorting.py) and the transforms (transforming.py), over the   *)
(* Experiment container (matrix + sample metadata + feature metadata).     *)
(*                                                                         *)
(* Conventions.                                                            *)
(*  - Positions are 1-based here (TLA+ sequences); the code's are 0-based. *)
(*  - A float is modelled by an exact rational [n, d] with d > 0; d = 0    *)
(*    encodes the IEEE specials (n > 0: +inf, n < 0: -inf, n = 0: NaN).    *)
(*  - An optional argument (None in the code) is a sequence of length 0,   *)
(*    a given one a sequence of length 1.                                  *)
(*  - pandas' label lookup  df.loc[labels, ]  is modelled as the pandas    *)
(*    the code was written for behaves (a list of labels re-indexes: a     *)
(*    label the table lacks gives a row of NaN; a KeyError only when no    *)
(*    label is found), which is what the warnings at io.py:363-368 and the *)
(*    drop parameter presuppose.                                           *)
(*  - A metadata source is a table keyed by identifier: its rows have      *)
(*    distinct identifiers; their order in the file is free.               *)
(***************************************************************************)
EXTENDS Integers, Sequences, FiniteSets, TLC

VARIABLES
    inp,    \* the arguments of the last read / read_open_ms call
    out,    \* what that call returned: [ok, exp, err, io]
    first,  \* what the first read of the same files returned
    heap,   \* the live Experiment objects, by object id
    cur,    \* the object the caller holds (0: none yet)
    last,   \* the last call on an Experiment: name, arguments, object, pre-state
    prev,   \* the call before the last
    nops    \* the number of calls made on Experiments

vars == <<inp, out, first, heap, cur, last, prev, nops>>

(***************************************************************************)
(* Bounds of the model.                                                    *)
(***************************************************************************)
MaxMetaRows == 3     \* rows of a metadata source
MaxOps == 2          \* calls in a pipeline after read
MaxOrder == 2        \* length of a new_order / ids argument
MaxIdLen == 3        \* characters of an OpenMS feature identifier

(***************************************************************************)
(* Sequences.                                                              *)
(***************************************************************************)
Range(s) == {s[i] : i \in DOMAIN s}

IsUnique(s) == \A i, j \in DOMAIN s : s[i] = s[j] => i = j

\* numpy fancy indexing  a[pos]  with a list of positions
SelectPos(s, pos) == [i \in 1..Len(pos) |-> s[pos[i]]]

RECURSIVE TruePositions(_)
\* np.where(mask)[0]: the positions of a boolean mask that are True, ascending
TruePositions(mask) ==
    IF mask = <<>> THEN <<>>
    ELSE LET n == Len(mask)
             front == TruePositions(SubSeq(mask, 1, n - 1))
         IN IF mask[n] THEN Append(front, n) ELSE front

\* the sequences of at most n distinct elements of S
DistinctSeqs(S, n) ==
    UNION {{s \in [1..k -> S] : IsUnique(s)} : k \in 0..n}

\* the sequences of at most n elements of S
SeqsUpTo(S, n) == UNION {[1..k -> S] : k \in 0..n}

Ids(table) == [i \in DOMAIN table |-> table[i].id]

(***************************************************************************)
(* Floats as rationals.                                                    *)
(***************************************************************************)
Abs(x) == IF x < 0 THEN -x ELSE x

RECURSIVE GCD(_, _)
GCD(a, b) == IF b = 0 THEN a ELSE GCD(b, a % b)

Sign(x) == IF x > 0 THEN 1 ELSE IF x < 0 THEN -1 ELSE 0

\* the rational n/d in lowest terms; d = 0 gives inf, -inf or NaN as in IEEE
Q(n, d) ==
    IF d = 0 THEN [n |-> Sign(n), d |-> 0]
    ELSE LET g == GCD(Abs(n), Abs(d))
             s == IF d < 0 THEN -1 ELSE 1
         IN [n |-> (s * n) \div g, d |-> (s * d) \div g]

QInt(k) == [n |-> k, d |-> 1]
QNaN == [n |-> 0, d |-> 0]
IsNaN(a) == a.d = 0 /\ a.n = 0
IsFinite(a) == a.d # 0

QAdd(a, b) ==
    IF IsFinite(a) /\ IsFinite(b) THEN Q(a.n * b.d + b.n * a.d, a.d * b.d)
    ELSE IF IsNaN(a) \/ IsNaN(b) THEN QNaN
    ELSE IF IsFinite(a) THEN b
    ELSE IF IsFinite(b) THEN a
    ELSE IF a.n = b.n THEN a ELSE QNaN

QMul(a, b) ==
    IF IsFinite(a) /\ IsFinite(b) THEN Q(a.n * b.n, a.d * b.d)
    ELSE IF IsNaN(a) \/ IsNaN(b) THEN QNaN
    ELSE Q(Sign(a.n) * Sign(b.n), 0)

\* IEEE division: x/0 is inf with the sign of x, 0/0 is NaN
QDiv(a, b) ==
    IF IsNaN(a) \/ IsNaN(b) THEN QNaN
    ELSE IF IsFinite(a) /\ IsFinite(b) THEN
        (IF b.n = 0 THEN Q(a.n, 0) ELSE Q(a.n * b.d, a.d * b.n))
    ELSE IF IsFinite(a) THEN QInt(0)
    ELSE IF IsFinite(b) THEN Q(a.n * (IF b.n < 0 THEN -1 ELSE 1), 0)
    ELSE QNaN

QAbs(a) == [n |-> Abs(a.n), d |-> a.d]
QNeg(a) == [n |-> -a.n, d |-> a.d]
QSub(a, b) == QAdd(a, QNeg(b))

\* a < b on floats: false whenever one side is NaN
QLess(a, b) ==
    IF IsNaN(a) \/ IsNaN(b) THEN FALSE
    ELSE IF IsFinite(a) /\ IsFinite(b) THEN a.n * b.d < b.n * a.d
    ELSE IF IsFinite(a) THEN b.n > 0
    ELSE IF IsFinite(b) THEN a.n < 0
    ELSE a.n < b.n

QLeq(a, b) == ~IsNaN(a) /\ ~IsNaN(b) /\ ~QLess(b, a)

RECURSIVE QSum(_)
QSum(s) == IF s = <<>> THEN QInt(0) ELSE QAdd(QSum(Tail(s)), Head(s))

\* the matrix as rows of rationals, from rows of integers
QMatrix(m) == [i \in DOMAIN m |-> [j \in DOMAIN m[i] |-> QInt(m[i][j])]]

Column(data, j) == [i \in DOMAIN data |-> data[i][j]]

(***************************************************************************)
(* The Experiment container.                                               *)
(*   data          the matrix, a sequence of rows of floats                *)
(*   rows, cols    for each data row / column, the identifier of the       *)
(*                 sample / feature it holds the counts of (the matrix     *)
(*                 itself carries no labels: these record where each row   *)
(*                 and column came from, and no operation reads them)      *)
(*   smd, fmd      sample_metadata / feature_metadata: rows [id, v, ...]   *)
(*                 in index order; v is the value of the metadata field    *)
(*   sparse        whether data is held as a scipy.sparse matrix           *)
(*   exp_metadata  the dict of experiment-level metadata                   *)
(***************************************************************************)
NoColumn == "-"      \* the value of a field the table has no column for
NaN == "nan"         \* a missing value in a metadata table

NullExp ==
    [data |-> <<>>, rows |-> <<>>, cols |-> <<>>, smd |-> <<>>, fmd |-> <<>>,
     sparse |-> FALSE,
     exp_metadata |-> [sample_metadata_file |-> FALSE,
                       feature_metadata_file |-> FALSE,
                       normalized |-> <<>>]]

\* what a call returns: an Experiment, or the exception it raised
Returned(e, io) == [ok |-> TRUE, exp |-> e, err |-> "", io |-> io]
Raised(err, io) == [ok |-> FALSE, exp |-> NullExp, err |-> err, io |-> io]

AllFinite(data) == \A i \in DOMAIN data : \A j \in DOMAIN data[i] : IsFinite(data[i][j])

\* (mutant) a zero sum is divided by as it is
L1NormalizeDividesByZero(data, skaxis) ==
    LET norm(v) == QSum([k \in DOMAIN v |-> QAbs(v[k])])
    IN [i \in DOMAIN data |-> [j \in DOMAIN data[i] |->
            QDiv(data[i][j],
                 IF skaxis = 1 THEN norm(data[i]) ELSE norm(Column(data, j)))]]

\* sklearn.preprocessing.normalize(X, norm='l1', axis): every row (axis = 1)
\* or column (axis = 0) divided by the sum of its absolute values, a zero
\* sum being replaced by 1
L1Normalize(data, skaxis) ==
    LET norm(v) == LET t == QSum([k \in DOMAIN v |-> QAbs(v[k])])
                   IN IF t = QInt(0) THEN QInt(1) ELSE t
    IN [i \in DOMAIN data |-> [j \in DOMAIN data[i] |->
            QDiv(data[i][j],
                 IF skaxis = 1 THEN norm(data[i]) ELSE norm(Column(data, j)))]]

Scaled(data, f) == [i \in DOMAIN data |-> [j \in DOMAIN data[i] |-> QMul(data[i][j], f)]]

\* (mutant) only a negative total is rejected
NormalizeExpAcceptsZero(e, total, axis) ==
    IF total.isbool THEN Raised("ValueError: total not numeric", <<>>)
    ELSE IF QLess(total.v, QInt(0)) THEN Raised("ValueError: total must be positive", <<>>)
    ELSE IF ~AllFinite(e.data) THEN Raised("ValueError: input contains NaN or infinity", <<>>)
    ELSE IF Len(e.rows) = 0 \/ Len(e.cols) = 0 THEN Raised("ValueError: found array with 0 samples or features", <<>>)
    ELSE Returned([e EXCEPT !.data = Scaled(L1Normalize(e.data, 1 - axis), total.v),
                            !.exp_metadata.normalized = <<total.v>>], <<>>)

\* normalize's effect on an Experiment value (transforming.py:63-72, after
\* the copy): [ok, exp, err]; total is [isbool, v]
NormalizeExp(e, total, axis) ==
    IF total.isbool THEN Raised("ValueError: total not numeric", <<>>)
    ELSE IF QLeq(total.v, QInt(0)) THEN Raised("ValueError: total must be positive", <<>>)
    ELSE IF ~AllFinite(e.data) THEN Raised("ValueError: input contains NaN or infinity", <<>>)
    ELSE IF Len(e.rows) = 0 \/ Len(e.cols) = 0 THEN Raised("ValueError: found array with 0 samples or features", <<>>)
    ELSE Returned([e EXCEPT !.data = Scaled(L1Normalize(e.data, 1 - axis), total.v),
                            !.exp_metadata.normalized = <<total.v>>], <<>>)

\* (mutant) new_order is taken as the set of the positions to keep, which
\* stay in the order they have
ReorderExpKeepsOrder(e, new_order, axis) ==
    LET n == IF axis = 0 THEN Len(e.rows) ELSE Len(e.cols)
        kept == TruePositions([k \in 1..n |-> k \in Range(new_order)])
    IN IF axis = 0
       THEN [e EXCEPT !.data = SelectPos(e.data, kept),
                      !.rows = SelectPos(e.rows, kept),
                      !.smd = SelectPos(e.smd, kept)]
       ELSE [e EXCEPT !.data = [i \in DOMAIN e.data |-> SelectPos(e.data[i], kept)],
                      !.cols = SelectPos(e.cols, kept),
                      !.fmd = SelectPos(e.fmd, kept)]

\* (mutant) only the data is selected, the metadata table is left as it was
ReorderExpDataOnly(e, new_order, axis) ==
    IF axis = 0
    THEN [e EXCEPT !.data = SelectPos(e.data, new_order),
                   !.rows = SelectPos(e.rows, new_order)]
    ELSE [e EXCEPT !.data = [i \in DOMAIN e.data |-> SelectPos(e.data[i], new_order)],
                   !.cols = SelectPos(e.cols, new_order)]

\* Experiment.reorder on an Experiment value: the data rows (axis 0) or
\* columns (axis 1) at the positions new_order, in that order, and the
\* metadata table of that axis at the same positions
ReorderExp(e, new_order, axis) ==
    IF axis = 0
    THEN [e EXCEPT !.data = SelectPos(e.data, new_order),
                   !.rows = SelectPos(e.rows, new_order),
                   !.smd = SelectPos(e.smd, new_order)]
    ELSE [e EXCEPT !.data = [i \in DOMAIN e.data |-> SelectPos(e.data[i], new_order)],
                   !.cols = SelectPos(e.cols, new_order),
                   !.fmd = SelectPos(e.fmd, new_order)]

\* the constructor: the matrix and the two tables as given
NewExperiment(data, sid, oid, smd, fmd, exp_metadata, sparse) ==
    [data |-> data, rows |-> sid, cols |-> oid, smd |-> smd, fmd |-> fmd,
     sparse |-> sparse, exp_metadata |-> exp_metadata]

(***************************************************************************)
(* read (io.py:291-414).                                                   *)
(***************************************************************************)
SupportedFormats == {"biom", "openms", "openms_transpose", "qiime2"}

\* the row of a table with index label id (the table's labels are distinct)
RowOf(table, id) == table[CHOOSE j \in DOMAIN table : table[j].id = id]

\* (mutant) the rows of the labels in the order of the file, not of the labels
LocKeepsFileOrder(table, labels) ==
    LET found == SelectSeq(table, LAMBDA r : r.id \in Range(labels))
        missing == SelectSeq(labels, LAMBDA x : x \notin Range(Ids(table)))
    IN [ok |-> TRUE,
        rows |-> found \o [i \in DOMAIN missing |-> [id |-> missing[i], v |-> NaN]]]

\* (mutant) the labels the table lacks are left out
LocSkipsMissing(table, labels) ==
    LET found == SelectSeq(labels, LAMBDA x : x \in Range(Ids(table)))
    IN [ok |-> TRUE, rows |-> [i \in DOMAIN found |-> RowOf(table, found[i])]]

\* (mutant) the i-th label is given the i-th row of the file
LocByPosition(table, labels) ==
    [ok |-> TRUE,
     rows |-> [i \in DOMAIN labels |->
                 IF i <= Len(table) THEN [id |-> labels[i], v |-> table[i].v]
                 ELSE [id |-> labels[i], v |-> NaN]]]

\* table.loc[labels, ]: the table re-indexed by the labels, a row of NaN for
\* a label it lacks; KeyError when it has none of the labels
Loc(table, labels) ==
    IF labels # <<>> /\ Range(labels) \cap Range(Ids(table)) = {}
    THEN [ok |-> FALSE, rows |-> <<>>]
    ELSE [ok |-> TRUE,
          rows |-> [i \in DOMAIN labels |->
                      IF labels[i] \in Range(Ids(table))
                      THEN RowOf(table, labels[i])
                      ELSE [id |-> labels[i], v |-> NaN]]]

\* _get_md_from_biom (io.py:125-139): the observation metadata as a table
\* indexed by the observation ids
MdFromBiom(oid, md) == [i \in DOMAIN oid |-> [id |-> oid[i], tax |-> md[i]]]

\* pd.concat([feature_metadata, md], axis=1): the columns of md joined to
\* the table's by index label
ConcatColumns(table, md) ==
    [i \in DOMAIN table |->
        [id |-> table[i].id, v |-> table[i].v, tax |-> RowOf(md, table[i].id).tax]]

WithoutTax(table) ==
    [i \in DOMAIN table |-> [id |-> table[i].id, v |-> table[i].v, tax |-> NoColumn]]

\* pd.DataFrame(index=ids) with the index duplicated to the column 'id'
IdTable(ids) == [i \in DOMAIN ids |-> [id |-> ids[i], v |-> NoColumn]]

\* (mutant) sfilter left all True
SampleFilterAllTrue(sid, source) == [i \in DOMAIN sid |-> TRUE]

\* sfilter (io.py:356-368): for each matrix sample, whether to keep it under
\* drop: all True, or False for the samples the metadata source lacks
SampleFilter(sid, source) ==
    LET sdiff == Range(sid) \ Range(Ids(source[1]))
    IN IF source # <<>> /\ sdiff # {}
       THEN [i \in DOMAIN sid |-> sid[i] \notin sdiff]
       ELSE [i \in DOMAIN sid |-> TRUE]

\* the files read loads, in order, when given both metadata sources or one
Loads(a) ==
    <<"data">> \o (IF a.sample_metadata_file # <<>> THEN <<"sample_metadata">> ELSE <<>>)
               \o (IF a.feature_metadata_file # <<>> THEN <<"feature_metadata">> ELSE <<>>)

\* read once the data file is loaded (io.py:356-414)
ReadLoaded(a) ==
    LET sid == a.data_file.sid
        oid == a.data_file.oid
        data == a.data_file.data
        hasS == a.sample_metadata_file # <<>>
        hasF == a.feature_metadata_file # <<>>
        stab == a.sample_metadata_file[1]
        ftab == a.feature_metadata_file[1]
        sfilter == SampleFilter(sid, a.sample_metadata_file)
        sloc == Loc(stab, sid)
        floc == Loc(ftab, oid)
        ioS == IF hasS THEN <<"data", "sample_metadata">> ELSE <<"data">>
        ioF == Loads(a)
    IN  IF hasS /\ ~sloc.ok THEN Raised("KeyError", ioS)
        ELSE IF hasF /\ ~floc.ok THEN Raised("KeyError", ioF)
        ELSE
        LET sample_metadata == IF hasS THEN sloc.rows ELSE IdTable(sid)
            fm == IF hasF THEN floc.rows ELSE IdTable(oid)
            feature_metadata ==
                IF a.data_file_type = "biom" /\ a.data_file.md # <<>>
                THEN ConcatColumns(fm, MdFromBiom(oid, a.data_file.md[1]))
                ELSE WithoutTax(fm)
            exp_metadata == [sample_metadata_file |-> hasS,
                             feature_metadata_file |-> hasF,
                             normalized |-> <<>>]
            exp0 == NewExperiment(data, sid, oid, sample_metadata, feature_metadata,
                                  exp_metadata, a.sparse)
            exp1 == IF a.drop THEN ReorderExp(exp0, TruePositions(sfilter), 0) ELSE exp0
        IN  IF a.normalize = <<>> THEN Returned(exp1, ioF)
            ELSE LET r == NormalizeExp(exp1, a.normalize[1], 0)
                 IN IF r.ok THEN Returned(r.exp, ioF) ELSE Raised(r.err, ioF)

\* (mutant) the format is checked after the files are loaded
ReadChecksFormatLate(a) ==
    IF a.data_file_type \notin SupportedFormats
    THEN Raised("ValueError: unkown data_file_type", Loads(a))
    ELSE ReadLoaded(a)

\* read: the format decides the loader, an unknown one raises (io.py:344-355)
Read(a) ==
    IF a.data_file_type \notin SupportedFormats
    THEN Raised("ValueError: unkown data_file_type", <<>>)
    ELSE ReadLoaded(a)

(***************************************************************************)
(* Calls on an Experiment.  The effect of an operation on the value of the *)
(* object it works on is [ok, exp, err]: exp is that object's value when   *)
(* the operation returns or raises.                                        *)
(***************************************************************************)
OpOk(e) == [ok |-> TRUE, exp |-> e, err |-> ""]
OpErr(e, err) == [ok |-> FALSE, exp |-> e, err |-> err]

Table(e, axis) == IF axis = 0 THEN e.smd ELSE e.fmd
Extent(e, axis) == IF axis = 0 THEN Len(e.rows) ELSE Len(e.cols)

\* whether the metadata table of the axis has the column of the field: it
\* has when the table was read from a source
HasField(e, axis) ==
    IF axis = 0 THEN e.exp_metadata.sample_metadata_file
    ELSE e.exp_metadata.feature_metadata_file

PermutationsOf(n) == {p \in [1..n -> 1..n] : \A i, j \in 1..n : p[i] = p[j] => i = j}

\* sorted(range(len(keys)), key=keys.__getitem__) for integer keys: the
\* positions by ascending key, equal keys in their original order
StableArgsort(keys) ==
    LET n == Len(keys)
        rank(i) == 1 + Cardinality({j \in 1..n : keys[j] < keys[i] \/ (keys[j] = keys[i] /\ j < i)})
    IN [r \in 1..n |-> CHOOSE i \in 1..n : rank(i) = r]

\* (mutant) an empty selection is an error
ReorderRejectsEmpty(e, new_order, axis) ==
    IF new_order = <<>> \/ \E i \in DOMAIN new_order : new_order[i] \notin 1..Extent(e, axis)
    THEN OpErr(e, "IndexError")
    ELSE OpOk(ReorderExp(e, new_order, axis))

\* Experiment.reorder(new_order, axis): positions outside the axis raise
Reorder(e, new_order, axis) ==
    IF \E i \in DOMAIN new_order : new_order[i] \notin 1..Extent(e, axis)
    THEN OpErr(e, "IndexError")
    ELSE OpOk(ReorderExp(e, new_order, axis))

\* (mutant) an entry whose field value is missing is never kept
FilterByMetadataDropsMissing(e, select, axis, negate) ==
    IF ~HasField(e, axis) THEN OpErr(e, "KeyError")
    ELSE LET t == Table(e, axis)
             mask == [i \in DOMAIN t |-> ((t[i].v \in select) # negate) /\ t[i].v # NaN]
         IN Reorder(e, TruePositions(mask), axis)

\* filter_by_metadata(field, select, axis, negate): the rows of the table
\* whose field value is in select (negate: is not), in their order
FilterByMetadata(e, select, axis, negate) ==
    IF ~HasField(e, axis) THEN OpErr(e, "KeyError")
    ELSE LET t == Table(e, axis)
             mask == [i \in DOMAIN t |-> (t[i].v \in select) # negate]
         IN Reorder(e, TruePositions(mask), axis)

\* the sum of each row (axis 0) or column (axis 1) of the data
AxisSums(e, axis) ==
    IF axis = 0 THEN [i \in DOMAIN e.data |-> QSum(e.data[i])]
    ELSE [j \in DOMAIN e.cols |-> QSum(Column(e.data, j))]

\* (mutant) a sum equal to the cutoff is dropped
FilterByDataStrict(e, axis, cutoff) ==
    LET sums == AxisSums(e, axis)
        mask == [i \in DOMAIN sums |-> QLess(QInt(cutoff), sums[i])]
    IN Reorder(e, TruePositions(mask), axis)

\* filter_by_data('sum_abundance', axis, cutoff): the rows / columns whose
\* sum is at least cutoff
FilterByData(e, axis, cutoff) ==
    LET sums == AxisSums(e, axis)
        mask == [i \in DOMAIN sums |-> QLeq(QInt(cutoff), sums[i])]
    IN Reorder(e, TruePositions(mask), axis)

\* filter_ids(ids, axis, negate): the entries named by ids, in the order of
\* ids (negate: all the others, in their order); unknown ids are ignored
FilterIds(e, ids, axis, negate) ==
    LET index == Ids(Table(e, axis))
        known == SelectSeq(ids, LAMBDA c : c \in Range(index))
        okpos == [i \in DOMAIN known |-> CHOOSE k \in DOMAIN index : index[k] = known[i]]
        others == [k \in DOMAIN index |-> index[k] \notin Range(ids)]
    IN Reorder(e, IF negate THEN TruePositions(others) ELSE okpos, axis)

\* the positions of the table whose field value is g
GroupPositions(t, g) == {i \in DOMAIN t : t[i].v = g}

\* the order of the field's values in np.unique
FieldRank(v) == CASE v = "a" -> 1 [] v = "b" -> 2 [] v = NaN -> 3 [] OTHER -> 4

\* a set of positions as the ascending sequence of its members
Ascending(S) ==
    LET n == Cardinality(S)
    IN [r \in 1..n |-> CHOOSE i \in S : Cardinality({j \in S : j < i}) = r - 1]

RECURSIVE Concat(_)
Concat(ss) == IF ss = <<>> THEN <<>> ELSE Head(ss) \o Concat(Tail(ss))

\* the size of the smallest group of the field's values (0 without entries)
SmallestGroup(t) ==
    LET values == {t[i].v : i \in DOMAIN t}
        sizes == {Cardinality(GroupPositions(t, g)) : g \in values}
    IN IF values = {} THEN 0 ELSE CHOOSE m \in sizes : \A k \in sizes : m <= k

\* num_keep is <<>> for None, <<k>> for k: the members kept of every group
GroupSize(t, num_keep) == IF num_keep = <<>> THEN SmallestGroup(t) ELSE num_keep[1]

\* a num_keep that the smallest group cannot supply
TooBig(t, num_keep) == num_keep # <<>> /\ num_keep[1] > SmallestGroup(t)

\* (mutant) every member of every group is kept
DownsampleChoicesKeepAll(e, axis, num_keep) == {DOMAIN Table(e, axis)}

\* downsample(field, axis, num_keep): from the members of every value of the
\* field, num_keep (None: as many as the smallest group has), chosen at
\* random without replacement (keep is the set of the chosen positions)
DownsampleChoices(e, axis, num_keep) ==
    LET t == Table(e, axis)
        values == {t[i].v : i \in DOMAIN t}
    IN IF TooBig(t, num_keep) THEN {{}}
       ELSE {keep \in SUBSET DOMAIN t :
                \A g \in values :
                    Cardinality(keep \cap GroupPositions(t, g)) = GroupSize(t, num_keep)}

\* (mutant) a num_keep that is too big is not noticed
DownsampleIgnoresNumKeep(e, axis, num_keep, keep) ==
    IF ~HasField(e, axis) THEN OpErr(e, "KeyError")
    ELSE Reorder(e, Ascending(keep), axis)

\* a num_keep above the size of the smallest group is an error; otherwise the
\* chosen members, value after value in the order of np.unique
Downsample(e, axis, num_keep, keep) ==
    IF ~HasField(e, axis) THEN OpErr(e, "KeyError")
    ELSE IF TooBig(Table(e, axis), num_keep) THEN OpErr(e, "ValueError")
    ELSE LET t == Table(e, axis)
             groups == Ascending({FieldRank(t[i].v) : i \in DOMAIN t})
             members(r) == {i \in keep : FieldRank(t[i].v) = r}
         IN Reorder(e, Concat([k \in DOMAIN groups |-> Ascending(members(groups[k]))]), axis)

(***************************************************************************)
(* sorting.py                                                              *)
(***************************************************************************)
\* the key _argsort sorts a metadata value by: (type name, value), a float
\* (NaN) before every str
MetaKey(v) == CASE v = NaN -> 0 [] v = "a" -> 1 [] v = "b" -> 2 [] OTHER -> 3

\* sort_by_metadata (sorting.py:192-200)
SortByMetadata(e, axis) ==
    IF ~HasField(e, axis) THEN OpErr(e, "KeyError")
    ELSE LET t == Table(e, axis)
         IN Reorder(e, StableArgsort([i \in DOMAIN t |-> MetaKey(t[i].v)]), axis)

\* np.setdiff1d(np.arange(n), okpos, assume_unique=True): the positions not
\* in okpos, ascending
SetDiff1d(n, okpos) == Ascending((1..n) \ Range(okpos))

\* (mutant) the positions of the ids the index holds, in the order of the index
OkPosInIndexOrder(index, ids) ==
    Ascending({k \in DOMAIN index : index[k] \in Range(ids)})

\* okpos (sorting.py:383-388): for every id of ids the index holds, in the
\* order of ids, its position index.get_loc(cid)
OkPos(index, ids) ==
    LET known == SelectSeq(ids, LAMBDA c : c \in Range(index))
    IN [i \in DOMAIN known |-> CHOOSE k \in DOMAIN index : index[k] = known[i]]

\* sort_ids (sorting.py:378-393).  For an id the index holds more than once
\* get_loc gives no position but a slice or a mask, which reorder rejects
SortIds(e, ids, axis) ==
    LET index == Ids(Table(e, axis))
        ambiguous == \E c \in Range(ids) :
                        Cardinality({k \in DOMAIN index : index[k] = c}) > 1
        okpos == OkPos(index, ids)
        otherpos == SetDiff1d(Len(index), okpos)
    IN IF ambiguous THEN OpErr(e, "IndexError")
       ELSE Reorder(e, okpos \o otherpos, axis)

(***************************************************************************)
(* transforming.py.  log2 and the square root are computed where their     *)
(* result is a rational (Log2Exact, ScaleExact); the calls are modelled on *)
(* such data only.                                                         *)
(***************************************************************************)
DefaultTotal == 10000

Mean(v) == QDiv(QSum(v), QInt(Len(v)))
Entries(data) == UNION {Range(data[i]) : i \in DOMAIN data}
Empty(e) == Len(e.rows) = 0 \/ Len(e.cols) = 0

RECURSIVE IsPow2(_)
IsPow2(m) == m = 1 \/ (m > 1 /\ m % 2 = 0 /\ IsPow2(m \div 2))

RECURSIVE Log2Int(_)
Log2Int(m) == IF m <= 1 THEN 0 ELSE 1 + Log2Int(m \div 2)

\* x[x < n] = n, elementwise: NaN < n is false, NaN stays
Clamp(x, n) == IF QLess(x, QInt(n)) THEN QInt(n) ELSE x

\* np.log2 of a value clamped to n >= 1
Log2(x) == IF IsFinite(x) THEN QInt(Log2Int(x.n)) ELSE x

Log2Exact(values, n) ==
    \A x \in values : LET c == Clamp(x, n) IN IsFinite(c) => (c.d = 1 /\ IsPow2(c.n))

\* normalize (transforming.py:63-72)
Normalize(e, total, axis) ==
    LET r == NormalizeExp(e, total, axis)
    IN IF r.ok THEN OpOk(r.exp) ELSE OpErr(e, r.err)

\* rescale (transforming.py:97-103): every entry times total over the mean
\* of the sums along the axis.  A sparse matrix multiplies its stored
\* entries by 1/mean, the zeros it does not store stay zero
Rescale(e, total, axis) ==
    IF total.isbool THEN OpErr(e, "ValueError: total not numeric")
    ELSE LET current_mean == Mean(AxisSums(e, axis))
             dense(x) == QDiv(QMul(x, total.v), current_mean)
             stored(x) == IF x = QInt(0) THEN x ELSE QMul(QMul(x, total.v), QDiv(QInt(1), current_mean))
         IN OpOk([e EXCEPT !.data = [i \in DOMAIN e.data |-> [j \in DOMAIN e.data[i] |->
                        IF e.sparse THEN stored(e.data[i][j]) ELSE dense(e.data[i][j])]]])

MaxRoot == 100
IsSquare(m) == \E k \in 0..MaxRoot : k * k = m
Root(m) == CHOOSE k \in 0..MaxRoot : k * k = m
Variance(v) == LET m == Mean(v) IN Mean([k \in DOMAIN v |-> QMul(QSub(v[k], m), QSub(v[k], m))])

\* the vectors sklearn works along: the rows (axis 1) or the columns (axis 0)
Vectors(e, skaxis) ==
    IF skaxis = 1 THEN e.data ELSE [j \in DOMAIN e.cols |-> Column(e.data, j)]

ScaleExact(e, skaxis) ==
    \A v \in Range(Vectors(e, skaxis)) :
        LET var == Variance(v) IN IsSquare(var.n) /\ IsSquare(var.d)

\* z-scores of a vector: a zero standard deviation is replaced by 1
ZScores(v) ==
    LET m == Mean(v)
        var == Variance(v)
        std == IF var.n = 0 THEN QInt(1) ELSE Q(Root(var.n), Root(var.d))
    IN [k \in DOMAIN v |-> QDiv(QSub(v[k], m), std)]

\* scale (transforming.py:121-127): the matrix is made dense, then
\* standardized in place by sklearn.preprocessing.scale(axis=1-axis), which
\* rejects NaN, infinity and an empty array
Scale(e, axis) ==
    LET d == [e EXCEPT !.sparse = FALSE]
    IN IF ~AllFinite(e.data) \/ Empty(e) THEN OpErr(d, "ValueError")
       ELSE OpOk([d EXCEPT !.data =
                    IF axis = 0 THEN [i \in DOMAIN e.data |-> ZScores(e.data[i])]
                    ELSE [i \in DOMAIN e.data |-> [j \in DOMAIN e.cols |->
                              ZScores(Column(e.data, j))[i]]]])

\* binarize (transforming.py:146-150): in place by
\* sklearn.preprocessing.binarize, 1 above the threshold and 0 otherwise; it
\* rejects NaN, infinity, an empty array, and a negative threshold on a
\* sparse matrix
Binarize(e, threshold) ==
    IF ~AllFinite(e.data) \/ Empty(e) \/ (e.sparse /\ threshold < 0)
    THEN OpErr(e, "ValueError")
    ELSE OpOk([e EXCEPT !.data = [i \in DOMAIN e.data |-> [j \in DOMAIN e.data[i] |->
                 IF QLess(QInt(threshold), e.data[i][j]) THEN QInt(1) ELSE QInt(0)]]])

\* (mutant) the representation is left as it is
LogNKeepsRepresentation(e, n) ==
    OpOk([e EXCEPT !.data = [i \in DOMAIN e.data |-> [j \in DOMAIN e.data[i] |->
                                Log2(Clamp(e.data[i][j], n))]]])

\* log_n (transforming.py:167-177)
LogN(e, n) ==
    OpOk([e EXCEPT !.sparse = FALSE,
                   !.data = [i \in DOMAIN e.data |-> [j \in DOMAIN e.data[i] |->
                                Log2(Clamp(e.data[i][j], n))]]])

\* (mutant) negate is taken the other way round
NormalizeBySubsetFeaturesNegateInverted(e, features, total, negate) ==
    LET feature_pos == [j \in DOMAIN e.fmd |-> (e.fmd[j].id \in features) = negate]
        use_reads == [i \in DOMAIN e.data |->
                        QSum(SelectPos(e.data[i], TruePositions(feature_pos)))]
    IN OpOk([e EXCEPT !.sparse = FALSE,
                      !.data = [i \in DOMAIN e.data |-> [j \in DOMAIN e.data[i] |->
                                   QDiv(QMul(total, e.data[i][j]), use_reads[i])]],
                      !.exp_metadata.normalized = <<total>>])

\* (mutant) only the features the sums were taken over are left in data
NormalizeBySubsetFeaturesKeepsSubset(e, features, total, negate) ==
    LET feature_pos == [j \in DOMAIN e.fmd |-> (e.fmd[j].id \in features) # negate]
        use_reads == [i \in DOMAIN e.data |->
                        QSum(SelectPos(e.data[i], TruePositions(feature_pos)))]
    IN OpOk([e EXCEPT !.sparse = FALSE,
                      !.data = [i \in DOMAIN e.data |->
                                   [k \in DOMAIN TruePositions(feature_pos) |->
                                       QDiv(QMul(total, e.data[i][TruePositions(feature_pos)[k]]),
                                            use_reads[i])]],
                      !.exp_metadata.normalized = <<total>>])

\* normalize_by_subset_features (transforming.py:247-259); features is the
\* set of feature ids given
NormalizeBySubsetFeatures(e, features, total, negate) ==
    LET feature_pos == [j \in DOMAIN e.fmd |-> (e.fmd[j].id \in features) # negate]
        use_reads == [i \in DOMAIN e.data |->
                        QSum(SelectPos(e.data[i], TruePositions(feature_pos)))]
    IN OpOk([e EXCEPT !.sparse = FALSE,
                      !.data = [i \in DOMAIN e.data |-> [j \in DOMAIN e.data[i] |->
                                   QDiv(QMul(total, e.data[i][j]), use_reads[i])]],
                      !.exp_metadata.normalized = <<total>>])

\* normalize_compositional (transforming.py:283-286): the features that
\* filter_mean(min_frac) keeps (comp) are the ones that
\* normalize_by_subset_features leaves out of its sums
NormalizeCompositional(e, comp, total) == NormalizeBySubsetFeatures(e, comp, total, TRUE)

\* the keyword arguments of transform are given in the order the dict holds
\* them, as [key, v]: key the parts of the keyword between "__".
\* The parameters a step takes besides exp and inplace:
ParamsOf(step) ==
    CASE step = "normalize" -> {"total", "axis"}
      [] step = "log_n" -> {"n"}
      [] step = "scale" -> {"axis"}
      [] step = "binarize" -> {"threshold"}

\* (mutant) a keyword of any step is taken for the parameter of that name
ParamOfAnyStep(kwargs, step, name, default) ==
    LET given == SelectSeq(kwargs, LAMBDA kw : kw.key[2] = name)
    IN IF given = <<>> THEN default ELSE given[Len(given)].v

\* params[step][name], or the default of the step's parameter
Param(kwargs, step, name, default) ==
    LET given == SelectSeq(kwargs, LAMBDA kw : kw.key = <<step, name>>)
    IN IF given = <<>> THEN default ELSE given[Len(given)].v

\* step(exp, inplace=True, **params[step.__name__])
Step(e, step, kwargs) ==
    IF \E i \in DOMAIN kwargs : kwargs[i].key[1] = step /\ kwargs[i].key[2] \notin ParamsOf(step)
    THEN OpErr(e, "TypeError: unexpected keyword argument")
    ELSE CASE step = "normalize" ->
                Normalize(e, [isbool |-> FALSE, v |-> QInt(Param(kwargs, step, "total", DefaultTotal))],
                          Param(kwargs, step, "axis", 0))
           [] step = "log_n" -> LogN(e, Param(kwargs, step, "n", 1))
           [] step = "scale" -> Scale(e, Param(kwargs, step, "axis", 0))
           [] step = "binarize" -> Binarize(e, Param(kwargs, step, "threshold", 1))

RECURSIVE RunSteps(_, _, _)
RunSteps(e, steps, kwargs) ==
    IF steps = <<>> THEN OpOk(e)
    ELSE LET r == Step(e, Head(steps), kwargs)
         IN IF r.ok THEN RunSteps(r.exp, Tail(steps), kwargs) ELSE r

\* (mutant) an 'inplace' keyword is routed like any other
TransformAllowsInplace(e, steps, kwargs) ==
    IF \E i \in DOMAIN kwargs : Len(kwargs[i].key) # 2
    THEN OpErr(e, "ValueError: unpack")
    ELSE RunSteps(e, steps, kwargs)

\* transform (transforming.py:206-215), after the copy
Transform(e, steps, kwargs) ==
    IF \E i \in DOMAIN kwargs : Len(kwargs[i].key) # 2
    THEN OpErr(e, "ValueError: unpack")
    ELSE IF \E i \in DOMAIN kwargs : kwargs[i].key[2] = "inplace"
    THEN OpErr(e, "ValueError: inplace")
    ELSE RunSteps(e, steps, kwargs)

\* whether log2 and the square roots of the steps are rationals
RECURSIVE StepsExact(_, _, _)
StepsExact(e, steps, kwargs) ==
    IF steps = <<>> THEN TRUE
    ELSE LET step == Head(steps)
             r == Step(e, step, kwargs)
             exact == CASE step = "log_n" -> Log2Exact(Entries(e.data), Param(kwargs, step, "n", 1))
                        [] step = "scale" -> ~AllFinite(e.data) \/ Empty(e)
                                             \/ ScaleExact(e, 1 - Param(kwargs, step, "axis", 0))
                        [] OTHER -> TRUE
         IN exact /\ (r.ok => StepsExact(r.exp, Tail(steps), kwargs))

(***************************************************************************)
(* sorting.py, the sorts by the data.  A sort whose order the libraries    *)
(* leave open (equal keys under np.argsort's default kind, the leaves of a *)
(* dendrogram) is the set of the effects it can have.                      *)
(***************************************************************************)
\* a before b in a sorted float array: NaN is sorted to the end
Before(a, b) == ~IsNaN(a) /\ (IsNaN(b) \/ QLess(a, b))

\* np.argsort(keys, kind='mergesort'): equal keys keep their order
MergeArgsort(keys) ==
    LET n == Len(keys)
        rank(i) == 1 + Cardinality({j \in 1..n : Before(keys[j], keys[i])
                                       \/ (~Before(keys[i], keys[j]) /\ j < i)})
    IN [r \in 1..n |-> CHOOSE i \in 1..n : rank(i) = r]

\* np.argsort(keys): the orders that sort the keys, equal keys in any order
Argsort(keys) ==
    {p \in PermutationsOf(Len(keys)) :
        \A i, j \in DOMAIN keys : i < j => ~Before(keys[p[j]], keys[p[i]])}

Reversed(p) == [i \in DOMAIN p |-> p[Len(p) + 1 - i]]

\* sort_centroid (sorting.py:72-85); transform is "log_n" or "None".  On a
\* sparse matrix that is not transformed the division by the matrix of sums
\* gives a 2-d array of positions, which reorder rejects
SortCentroid(e, transform) ==
    IF transform = "None" /\ e.sparse THEN OpErr(e, "IndexError")
    ELSE LET data == IF transform = "None" THEN e.data ELSE LogN(e, 1).exp.data
             nsamples == Len(e.rows)
             coordinates == [i \in 1..nsamples |-> Q(2 * (i - 1) - (nsamples - 1), 2)]
             center_mass == [j \in DOMAIN e.cols |->
                 QDiv(QSum([i \in 1..nsamples |-> QMul(data[i][j], coordinates[i])]),
                      QSum(Column(data, j)))]
         IN Reorder(e, MergeArgsort(center_mass), 1)

\* cluster_data (sorting.py:119-133) without a transform: the leaves of the
\* single-linkage dendrogram, some order of the axis; scipy rejects fewer
\* than two observations and distances that are not finite
ClusterData(e, axis) ==
    IF Extent(e, axis) < 2 \/ ~AllFinite(e.data) THEN {OpErr(e, "ValueError")}
    ELSE {Reorder(e, sort_order, axis) : sort_order \in PermutationsOf(Extent(e, axis))}

\* _log_mean (sorting.py:287-296) with logit=1
LogMean(x) == Mean([k \in DOMAIN x |-> Log2(Clamp(x[k], 1))])

\* _prevalence (sorting.py:299-300) with cutoff=0, of a 1-d array
Prevalence(x) == Q(Cardinality({k \in DOMAIN x : QLeq(QInt(0), x[k])}), Len(x))

KeyOf(key, x) ==
    CASE key = "log_mean" -> LogMean(x)
      [] key = "prevalence" -> Prevalence(x)
      [] key = "mean" -> Mean(x)

\* data_subset (sorting.py:238-245) as the vectors the key is applied to:
\* subset is <<>> for None, or <<positions on the opposite axis>>
DataSubset(e, axis, subset) ==
    LET v == Vectors(e, 1 - axis)
    IN IF subset = <<>> THEN v ELSE [k \in DOMAIN v |-> SelectPos(v[k], subset[1])]

\* sort_by_data (sorting.py:238-268).  Of a sparse row len() is not defined,
\* so 'prevalence' raises; with nothing to sort or nothing to compute the
\* key of, the outcome is left open
SortByData(e, axis, subset, key, reverse) ==
    LET vectors == DataSubset(e, axis, subset)
        values == [k \in DOMAIN vectors |-> KeyOf(key, vectors[k])]
        orders == {IF reverse THEN Reversed(p) ELSE p : p \in Argsort(values)}
    IN IF subset # <<>> /\ \E k \in Range(subset[1]) : k \notin 1..Extent(e, 1 - axis)
       THEN {OpErr(e, "IndexError")}
       ELSE IF Empty(e) \/ (subset # <<>> /\ subset[1] = <<>>)
       THEN {OpErr(e, "ValueError")}
            \cup {Reorder(e, p, axis) : p \in PermutationsOf(Extent(e, axis))}
       ELSE IF e.sparse /\ key = "prevalence" THEN {OpErr(e, "TypeError")}
       ELSE {Reorder(e, p, axis) : p \in orders}

\* whether the log2 of sort_by_data's key is a rational
SortByDataExact(e, axis, subset, key) ==
    key = "log_mean" =>
        \/ subset # <<>> /\ \E k \in Range(subset[1]) : k \notin 1..Extent(e, 1 - axis)
        \/ Log2Exact(UNION {Range(v) : v \in Range(DataSubset(e, axis, subset))}, 1)

(***************************************************************************)
(* read_open_ms (io.py:210-288).  A feature identifier is a sequence of    *)
(* characters here; "1" stands for a digit.                                *)
(***************************************************************************)
RECURSIVE Split(_, _)
\* str.split(sep): the pieces of s between the occurrences of the character
\* sep; a string without sep gives the one piece s
Split(s, sep) ==
    IF \A i \in DOMAIN s : s[i] # sep THEN <<s>>
    ELSE LET k == CHOOSE i \in DOMAIN s :
                     s[i] = sep /\ \A j \in 1..(i - 1) : s[j] # sep
         IN <<SubSeq(s, 1, k - 1)>> \o Split(SubSeq(s, k + 1, Len(s)), sep)

RECURSIVE Strip(_)
\* str.strip(): without the spaces at both ends
Strip(s) ==
    IF s = <<>> THEN s
    ELSE IF Head(s) = " " THEN Strip(Tail(s))
    ELSE IF s[Len(s)] = " " THEN Strip(SubSeq(s, 1, Len(s) - 1))
    ELSE s

\* float(part): whether the text converts.  Digits convert; spaces around
\* them are ignored; an underscore between two digits converts only on an
\* interpreter with underscores in numeric literals (pep515)
FloatConverts(part, pep515) ==
    LET t == Strip(part)
    IN /\ t # <<>>
       /\ \A i \in DOMAIN t : t[i] \in {"1", "_"}
       /\ \A i \in DOMAIN t : t[i] = "_" =>
             /\ pep515
             /\ i > 1 /\ i < Len(t)
             /\ t[i - 1] = "1" /\ t[i + 1] = "1"

RECURSIVE DigitsValue(_)
DigitsValue(t) ==
    IF t = <<>> THEN 0
    ELSE LET front == DigitsValue(SubSeq(t, 1, Len(t) - 1))
         IN IF t[Len(t)] = "1" THEN 10 * front + 1 ELSE front

\* column k of  str.split(sep, expand=True)  for one identifier: the k-th
\* piece, or None (a sequence of length 0) when there are fewer pieces
Piece(id, sep, k) ==
    LET ps == Split(id, sep) IN IF k <= Len(ps) THEN <<ps[k]>> ELSE <<>>

\* astype(float) on such a column entry: None becomes NaN
PieceFloat(p, pep515) == IF p = <<>> THEN QNaN ELSE QInt(DigitsValue(Strip(p[1])))

\* (mutant) the space is tried before the underscore
DetectSeparatorSpaceFirst(id1) ==
    IF Len(Split(id1, " ")) > 1 THEN [ok |-> TRUE, sep |-> " "]
    ELSE IF Len(Split(id1, "_")) > 1 THEN [ok |-> TRUE, sep |-> "_"]
    ELSE [ok |-> FALSE, sep |-> ""]

\* the separator autodetected from the first feature identifier
\* (io.py:261-273): [ok, sep]
DetectSeparator(id1) ==
    IF Len(Split(id1, "_")) > 1 THEN [ok |-> TRUE, sep |-> "_"]
    ELSE IF Len(Split(id1, " ")) > 1 THEN [ok |-> TRUE, sep |-> " "]
    ELSE [ok |-> FALSE, sep |-> ""]

OpenMsResult(r, sep) == [ok |-> r.ok, exp |-> r.exp, err |-> r.err, io |-> r.io, mz_rt_sep |-> sep]

\* the MZ and RT columns (io.py:275-279), given the separator
OpenMsColumns(r, a, sep) ==
    LET fmd == r.exp.fmd
        ncols == IF fmd = <<>> THEN 0
                 ELSE CHOOSE n \in 1..(MaxIdLen + 2) :
                        /\ \E i \in DOMAIN fmd : Len(Split(fmd[i].id, sep)) = n
                        /\ \A i \in DOMAIN fmd : Len(Split(fmd[i].id, sep)) <= n
        bad == \E i \in DOMAIN fmd : \E k \in 1..2 :
                  LET p == Piece(fmd[i].id, sep, k)
                  IN p # <<>> /\ ~FloatConverts(p[1], a.pep515)
    IN IF ncols < 2 THEN OpenMsResult(Raised("KeyError", r.io), <<sep>>)
       ELSE IF bad THEN OpenMsResult(Raised("ValueError: could not convert string to float", r.io), <<sep>>)
       ELSE OpenMsResult(
              Returned([r.exp EXCEPT !.fmd = [i \in DOMAIN fmd |->
                          [id |-> fmd[i].id, v |-> fmd[i].v, tax |-> fmd[i].tax,
                           MZ |-> PieceFloat(Piece(fmd[i].id, sep, 1), a.pep515),
                           RT |-> PieceFloat(Piece(fmd[i].id, sep, 2), a.pep515)]]],
                       r.io),
              <<sep>>)

ReadOpenMs(a) ==
    LET r == Read([data_file |-> a.data_file,
                   sample_metadata_file |-> a.sample_metadata_file,
                   feature_metadata_file |-> a.feature_metadata_file,
                   drop |-> FALSE, sparse |-> a.sparse,
                   data_file_type |-> IF a.rows_are_samples THEN "openms_transpose" ELSE "openms",
                   normalize |-> a.normalize])
    IN IF ~r.ok THEN OpenMsResult(r, <<>>)
       ELSE IF a.mz_rt_sep # <<>> THEN OpenMsColumns(r, a, a.mz_rt_sep[1])
       ELSE IF r.exp.fmd = <<>> THEN OpenMsResult(Raised("IndexError", r.io), <<>>)
       ELSE LET d == DetectSeparator(r.exp.fmd[1].id)
            IN IF d.ok THEN OpenMsColumns(r, a, d.sep)
               ELSE OpenMsResult(Raised("ValueError: No separator detected", r.io), <<>>)

(***************************************************************************)
(* The files read is given.                                                *)
(***************************************************************************)
\* the matrix of the data file: three samples by two features
MatrixSid == <<"S1", "S2", "S3">>
MatrixOid == <<"F1", "F2">>
MatrixData == QMatrix(<< <<4, 0>>, <<2, 2>>, <<0, 0>> >>)

DataFile(md) == [sid |-> MatrixSid, oid |-> MatrixOid, data |-> MatrixData, md |-> md]

\* the identifiers a metadata source may hold, in the source's first order:
\* those of the matrix and one the matrix lacks
SampleFileIds == <<"S1", "S2", "S3", "S9">>
FeatureFileIds == <<"F1", "F2", "F9">>

\* the value of the metadata field in the row of an identifier
FieldOf(id) == IF id \in {"S1", "S2", "F1"} THEN "a" ELSE "b"

Formats == SupportedFormats \cup {"csv"}

Total(k) == [isbool |-> FALSE, v |-> QInt(k)]

\* the table holding the rows of the identifiers T, in the order of ids
TableOf(ids, T) ==
    LET keep == SelectSeq(ids, LAMBDA x : x \in T)
    IN [i \in DOMAIN keep |-> [id |-> keep[i], v |-> FieldOf(keep[i])]]

SourcesOver(ids) ==
    {<<>>} \cup {<<TableOf(ids, T)>> : T \in {U \in SUBSET Range(ids) : Cardinality(U) <= MaxMetaRows}}

ReadInputs ==
    [data_file : {DataFile(<<>>), DataFile(<< <<"t1", "t2">> >>)},
     sample_metadata_file : SourcesOver(SampleFileIds),
     feature_metadata_file : SourcesOver(FeatureFileIds),
     drop : BOOLEAN,
     sparse : {TRUE},
     data_file_type : Formats,
     normalize : {<<>>, <<Total(10)>>}]

NullInput ==
    [data_file |-> DataFile(<<>>), sample_metadata_file |-> <<>>,
     feature_metadata_file |-> <<>>, drop |-> FALSE, sparse |-> FALSE,
     data_file_type |-> "", normalize |-> <<>>]

NotCalled == Raised("not called", <<>>)

Swap(s, i, j) == [s EXCEPT ![i] = s[j], ![j] = s[i]]

(***************************************************************************)
(* The state before any call.                                              *)
(***************************************************************************)
NullCall ==
    [op |-> "", axis |-> 0, inplace |-> FALSE, arg |-> <<>>, self |-> 0, ret |-> 0,
     pre |-> NullExp, err |-> ""]

Init ==
    /\ inp = NullInput
    /\ out = NotCalled
    /\ first = NotCalled
    /\ heap = [o \in 1..2 |-> NullExp]
    /\ cur = 0
    /\ last = NullCall
    /\ prev = NullCall
    /\ nops = 0

(***************************************************************************)
(* Reading: a first read of the files, then reads of the same files with   *)
(* two rows of a metadata source exchanged.                                *)
(***************************************************************************)
ReadFiles ==
    /\ inp = NullInput
    /\ \E a \in ReadInputs :
        /\ inp' = a
        /\ out' = Read(a)
        /\ first' = Read(a)
    /\ UNCHANGED <<heap, cur, last, prev, nops>>

ReadSwappedSamples ==
    /\ inp # NullInput
    /\ inp.sample_metadata_file # <<>>
    /\ \E i, j \in DOMAIN inp.sample_metadata_file[1] :
        /\ i < j
        /\ inp' = [inp EXCEPT !.sample_metadata_file = <<Swap(@[1], i, j)>>]
        /\ out' = Read(inp')
    /\ UNCHANGED <<first, heap, cur, last, prev, nops>>

ReadSwappedFeatures ==
    /\ inp # NullInput
    /\ inp.feature_metadata_file # <<>>
    /\ \E i, j \in DOMAIN inp.feature_metadata_file[1] :
        /\ i < j
        /\ inp' = [inp EXCEPT !.feature_metadata_file = <<Swap(@[1], i, j)>>]
        /\ out' = Read(inp')
    /\ UNCHANGED <<first, heap, cur, last, prev, nops>>

NextRead == ReadFiles \/ ReadSwappedSamples \/ ReadSwappedFeatures

SpecRead == Init /\ [][NextRead]_vars

(***************************************************************************)
(* read_amplicon (io.py:417-456): one call.                                *)
(***************************************************************************)
\* str.upper() of a feature identifier
Upper(c) == CASE c = "f1" -> "F1" [] c = "f2" -> "F2" [] OTHER -> c

\* the taxonomy of a feature as one string: t1 and t2 stand for the lists of
\* ranks a biom table holds
TaxonomyString(t) ==
    CASE t = "t1" -> "k__A;p__B" [] t = "t2" -> "k__A;p__C" [] OTHER -> t

\* io.py:444-449: the feature index in upper case, the taxonomy column as
\* strings, 'NA' where the table has no such column
AmpliconFeatures(e) ==
    [e EXCEPT !.cols = [j \in DOMAIN e.cols |-> Upper(e.cols[j])],
              !.fmd = [j \in DOMAIN e.fmd |->
                          [e.fmd[j] EXCEPT !.id = Upper(e.fmd[j].id),
                                           !.tax = IF e.fmd[j].tax = NoColumn THEN "NA"
                                                   ELSE TaxonomyString(e.fmd[j].tax)]]]

\* (mutant) read normalizes, the samples are filtered afterwards
ReadAmpliconNormalizesFirst(a, filter_reads) ==
    LET r == Read(a)
    IN IF ~r.ok THEN r
       ELSE LET e == AmpliconFeatures(r.exp)
                f == IF filter_reads = <<>> THEN OpOk(e)
                     ELSE FilterByData(e, 0, filter_reads[1])
            IN IF f.ok THEN Returned(f.exp, r.io) ELSE Raised(f.err, r.io)

\* read_amplicon(..., filter_reads, normalize): read without normalizing,
\* then filter_by_data('sum_abundance', cutoff=filter_reads) and normalize,
\* both in place and each only when its argument is not None; filter_reads
\* is <<>> for None, a.normalize is the normalize argument
ReadAmplicon(a, filter_reads) ==
    LET r == Read([a EXCEPT !.normalize = <<>>])
    IN IF ~r.ok THEN r
       ELSE LET e == AmpliconFeatures(r.exp)
                f == IF filter_reads = <<>> THEN OpOk(e)
                     ELSE FilterByData(e, 0, filter_reads[1])
                n == IF a.normalize = <<>> THEN Returned(f.exp, r.io)
                     ELSE NormalizeExp(f.exp, a.normalize[1], 0)
            IN IF ~f.ok THEN Raised(f.err, r.io)
               ELSE IF n.ok THEN Returned(n.exp, r.io) ELSE Raised(n.err, r.io)

\* a table of three samples with the read sums 6, 4 and 0, one feature
\* identifier in lower case
AmpliconData == QMatrix(<< <<6, 0>>, <<2, 2>>, <<0, 0>> >>)
AmpliconFile(md) == [sid |-> MatrixSid, oid |-> <<"f1", "F2">>, data |-> AmpliconData, md |-> md]

AmpliconInputs ==
    [data_file : {AmpliconFile(<<>>), AmpliconFile(<< <<"t1", "t2">> >>)},
     sample_metadata_file : SourcesOver(SampleFileIds),
     feature_metadata_file : {<<>>, <<TableOf(FeatureFileIds, {"F2", "F9"})>>},
     drop : BOOLEAN,
     sparse : BOOLEAN,
     data_file_type : {"biom", "csv"},
     normalize : {<<>>, <<Total(10)>>, <<Total(0)>>}]

FilterReads == {<<>>, <<1>>, <<5>>, <<9>>}

\* first is what read gives for the same files without normalize
ReadAmpliconFiles ==
    /\ out = NotCalled
    /\ \E a \in AmpliconInputs, filter_reads \in FilterReads :
        /\ inp' = a
        /\ out' = ReadAmplicon(a, filter_reads)
        /\ first' = Read([a EXCEPT !.normalize = <<>>])
        /\ last' = [NullCall EXCEPT !.op = "read_amplicon", !.arg = filter_reads]
    /\ UNCHANGED <<heap, cur, prev, nops>>

NextAmplicon == ReadAmpliconFiles

SpecAmplicon == Init /\ [][NextAmplicon]_vars

\* the position of a sample of the result among the samples read
RawPosition(id) == CHOOSE k \in DOMAIN first.exp.rows : first.exp.rows[k] = id

\* C26: the samples of the Experiment that read_amplicon returns are the
\* samples read whose raw sum is at least filter_reads, in their order (all
\* of them for filter_reads=None), so none with a raw sum below filter_reads
\* whatever normalize is; their rows are the raw rows, normalized to
\* normalize when that is not None.
C26_AmpliconFiltersThenNormalizes ==
    (last.op = "read_amplicon" /\ out.ok) =>
        LET raw == first.exp
            sums == AxisSums(raw, 0)
            keep == Ascending({i \in DOMAIN sums :
                        last.arg = <<>> \/ QLeq(QInt(last.arg[1]), sums[i])})
        IN /\ out.exp.rows = SelectPos(raw.rows, keep)
           /\ out.exp.smd = SelectPos(raw.smd, keep)
           /\ \A i \in DOMAIN out.exp.data :
                 LET before == raw.data[RawPosition(out.exp.rows[i])]
                     after == out.exp.data[i]
                 IN IF inp.normalize = <<>> THEN after = before
                    ELSE IF before = <<QInt(0), QInt(0)>> THEN after = before
                    ELSE /\ QSum(after) = inp.normalize[1].v
                         /\ \A j \in DOMAIN after :
                               QMul(after[j], QSum(before)) = QMul(before[j], inp.normalize[1].v)

\* filter_reads=5, normalize=10 and raw sums 6, 4, 0: only S1 is left, with
\* the sum 10; S2, whose sum 4 would be 10 once normalized, is not
C26_Witness ==
    /\ last.op = "read_amplicon" /\ out.ok
    /\ last.arg = <<5>> /\ inp.normalize = <<Total(10)>>
    /\ AxisSums(first.exp, 0) = <<QInt(6), QInt(4), QInt(0)>>
    /\ out.exp.rows = <<"S1">>
    /\ out.exp.data = QMatrix(<< <<10, 0>> >>)

(***************************************************************************)
(* Reading OpenMS bucket tables: one call of read_open_ms.                 *)
(***************************************************************************)
\* the feature identifiers of a bucket table: up to MaxIdLen characters
\* among a digit, the underscore and the space
MsIds == UNION {[1..k -> {"1", "_", " "}] : k \in 1..MaxIdLen}

OpenMsInputs ==
    [data_file : {[sid |-> <<"S1">>, oid |-> oid,
                   data |-> <<[j \in DOMAIN oid |-> QInt(j)]>>, md |-> <<>>] :
                      oid \in {s \in SeqsUpTo(MsIds, 2) : IsUnique(s)}},
     sample_metadata_file : {<<>>},
     feature_metadata_file : {<<>>},
     sparse : {FALSE},
     rows_are_samples : {FALSE},
     mz_rt_sep : {<<>>, <<"_">>, <<" ">>},
     pep515 : BOOLEAN,
     normalize : {<<>>}]

ReadOpenMsFile ==
    /\ out = NotCalled
    /\ \E a \in OpenMsInputs :
        /\ inp' = a
        /\ out' = ReadOpenMs(a)
    /\ UNCHANGED <<first, heap, cur, last, prev, nops>>

NextOpenMs == ReadOpenMsFile

SpecOpenMs == Init /\ [][NextOpenMs]_vars

\* C8: with no separator given, read_open_ms detects it from the first
\* feature identifier alone: '_' if that identifier contains '_', else ' ' if
\* it contains a space; if it contains neither, the call raises (ValueError,
\* 'No separator detected') and returns no Experiment.
C8_SeparatorFromFirstIdentifier ==
    (out # NotCalled /\ inp.mz_rt_sep = <<>> /\ inp.data_file.oid # <<>>) =>
        LET id1 == inp.data_file.oid[1]
            has(c) == \E i \in DOMAIN id1 : id1[i] = c
        IN /\ has("_") => out.mz_rt_sep = <<"_">>
           /\ (~has("_") /\ has(" ")) => out.mz_rt_sep = <<" ">>
           /\ (~has("_") /\ ~has(" ")) =>
                 /\ ~out.ok
                 /\ out.err = "ValueError: No separator detected"
                 /\ out.exp = NullExp
           /\ out.ok => /\ out.exp.fmd[1].MZ = QInt(DigitsValue(Split(id1, out.mz_rt_sep[1])[1]))
                        /\ Ids(out.exp.fmd) = inp.data_file.oid

\* a call that returned with '_' detected, the first identifier holding an
\* underscore and the second a space and no underscore
C8_Witness ==
    /\ out # NotCalled /\ inp.mz_rt_sep = <<>> /\ out.ok
    /\ inp.data_file.oid = << <<"1", "_", "1">>, <<"1", " ">> >>
    /\ out.mz_rt_sep = <<"_">>

(***************************************************************************)
(* The pipeline: read, then up to MaxOps calls on the Experiment the       *)
(* caller holds.  A call with inplace=False works on a deep copy, a new    *)
(* object, which the caller holds afterwards; the object passed in stays   *)
(* live until the next call.                                               *)
(***************************************************************************)
PipelineInputs ==
    {[data_file |-> DataFile(<< <<"t1", "t2">> >>),
      sample_metadata_file |-> <<TableOf(SampleFileIds, {"S1", "S2", "S3"})>>,
      feature_metadata_file |-> <<TableOf(FeatureFileIds, {"F1", "F2"})>>,
      drop |-> FALSE, sparse |-> TRUE, data_file_type |-> "biom", normalize |-> <<>>],
     [data_file |-> DataFile(<<>>),
      sample_metadata_file |-> <<TableOf(SampleFileIds, {"S1", "S3", "S9"})>>,
      feature_metadata_file |-> <<>>,
      drop |-> FALSE, sparse |-> FALSE, data_file_type |-> "openms", normalize |-> <<>>],
     [data_file |-> DataFile(<<>>),
      sample_metadata_file |-> <<TableOf(SampleFileIds, {"S1", "S2"})>>,
      feature_metadata_file |-> <<TableOf(FeatureFileIds, {"F2", "F9"})>>,
      drop |-> TRUE, sparse |-> TRUE, data_file_type |-> "qiime2", normalize |-> <<Total(10)>>],
     [data_file |-> DataFile(<<>>),
      sample_metadata_file |-> <<TableOf(SampleFileIds, {"S1", "S2", "S3"})>>,
      feature_metadata_file |-> <<>>,
      drop |-> FALSE, sparse |-> TRUE, data_file_type |-> "biom", normalize |-> <<Total(10)>>]}

ReadExperiment ==
    /\ cur = 0
    /\ \E a \in PipelineInputs :
        /\ Read(a).ok
        /\ inp' = a
        /\ out' = Read(a)
        /\ first' = Read(a)
        /\ heap' = [heap EXCEPT ![1] = Read(a).exp]
        /\ cur' = 1
    /\ UNCHANGED <<last, prev, nops>>

Other(o) == 3 - o

\* (mutant) no copy is made: the object passed in is worked on
TargetAlwaysSelf(o, inplace) == o

\* the object a transform works on and returns:
\*     if not inplace: exp = deepcopy(exp)
Target(o, inplace) == IF inplace THEN o ELSE Other(o)

\* the object Experiment.reorder works on and returns: the object itself
\* when inplace, a deep copy otherwise
ReorderTarget(o, inplace) == IF inplace THEN o ELSE Other(o)

\* the caller holds an Experiment and calls on
CanCall == cur # 0 /\ nops < MaxOps

\* a call of op on the caller's object: t the object worked on, r the effect
\* on it.  What is raised on a copy leaves no trace
Call(op, axis, inplace, arg, t, r) ==
    /\ CanCall
    /\ heap' = IF r.ok \/ t = cur THEN [heap EXCEPT ![t] = r.exp] ELSE heap
    /\ cur' = IF r.ok THEN t ELSE cur
    /\ last' = [op |-> op, axis |-> axis, inplace |-> inplace, arg |-> arg,
                self |-> cur, ret |-> IF r.ok THEN t ELSE 0,
                pre |-> heap[cur], err |-> r.err]
    /\ prev' = last
    /\ nops' = nops + 1
    /\ UNCHANGED <<inp, out, first>>

\* a filter or sort, which hands its inplace to reorder
CallReordering(op, axis, inplace, arg, r) ==
    Call(op, axis, inplace, arg, ReorderTarget(cur, inplace), r)

\* a transform, which copies first
CallTransforming(op, axis, inplace, arg, r) ==
    Call(op, axis, inplace, arg, Target(cur, inplace), r)

Exp == heap[cur]
Axes == {0, 1}

CallReorder ==
    /\ CanCall
    /\ \E axis \in Axes, inplace \in BOOLEAN :
         \E new_order \in SeqsUpTo(1..Extent(Exp, axis), MaxOrder) :
           CallReordering("reorder", axis, inplace, new_order, Reorder(Exp, new_order, axis))

CallFilterByMetadata ==
    /\ CanCall
    /\ \E axis \in Axes, inplace \in BOOLEAN, negate \in BOOLEAN :
         \E select \in {{"a"}, {"a", "b"}, {"z"}} :
           CallReordering("filter_by_metadata", axis, inplace, [select |-> select, negate |-> negate],
                FilterByMetadata(Exp, select, axis, negate))

CallFilterByData ==
    /\ CanCall
    /\ \E axis \in Axes, inplace \in BOOLEAN, cutoff \in {1, 4, 9} :
           CallReordering("filter_by_data", axis, inplace, cutoff, FilterByData(Exp, axis, cutoff))

CallFilterIds ==
    /\ CanCall
    /\ \E axis \in Axes, inplace \in BOOLEAN, negate \in BOOLEAN :
         \E ids \in {<<"S3", "S1">>, <<"F2", "pita">>} :
           CallReordering("filter_ids", axis, inplace, [ids |-> ids, negate |-> negate],
                FilterIds(Exp, ids, axis, negate))

CallDownsample ==
    /\ CanCall
    /\ \E axis \in Axes, inplace \in BOOLEAN :
         \E num_keep \in {<<>>, <<1>>, <<2>>} :
           \E keep \in DownsampleChoices(Exp, axis, num_keep) :
             CallReordering("downsample", axis, inplace, num_keep,
                  Downsample(Exp, axis, num_keep, keep))

CallSortByMetadata ==
    /\ CanCall
    /\ \E axis \in Axes, inplace \in BOOLEAN :
           CallReordering("sort_by_metadata", axis, inplace, <<>>, SortByMetadata(Exp, axis))

\* the ids arguments of sort_ids: up to two identifiers of the axis or the
\* unknown one, the same one twice included
IdsArguments(axis) ==
    SeqsUpTo((IF axis = 0 THEN Range(MatrixSid) ELSE Range(MatrixOid)) \cup {"pita"}, MaxOrder)

CallSortIds ==
    /\ CanCall
    /\ \E axis \in Axes, inplace \in BOOLEAN :
         \E ids \in IdsArguments(axis) :
           CallReordering("sort_ids", axis, inplace, ids, SortIds(Exp, ids, axis))

SortByDataArguments ==
    {[key |-> "log_mean", subset |-> <<>>, reverse |-> FALSE],
     [key |-> "mean", subset |-> <<>>, reverse |-> TRUE],
     [key |-> "mean", subset |-> << <<1>> >>, reverse |-> FALSE],
     [key |-> "prevalence", subset |-> <<>>, reverse |-> FALSE]}

CallSortByData ==
    /\ CanCall
    /\ \E axis \in Axes, inplace \in BOOLEAN, arg \in SortByDataArguments :
         /\ SortByDataExact(Exp, axis, arg.subset, arg.key)
         /\ \E r \in SortByData(Exp, axis, arg.subset, arg.key, arg.reverse) :
              CallReordering("sort_by_data", axis, inplace, arg, r)

CallSortCentroid ==
    /\ CanCall
    /\ \E inplace \in BOOLEAN, transform \in {"log_n", "None"} :
         /\ transform = "log_n" => Log2Exact(Entries(Exp.data), 1)
         /\ CallReordering("sort_centroid", 1, inplace, transform, SortCentroid(Exp, transform))

CallClusterData ==
    /\ CanCall
    /\ \E axis \in Axes, inplace \in BOOLEAN :
         \E r \in ClusterData(Exp, axis) :
           CallReordering("cluster_data", axis, inplace, <<>>, r)

CallNormalize ==
    /\ CanCall
    /\ \E axis \in Axes, inplace \in BOOLEAN :
         \E total \in {Total(10), Total(0), [isbool |-> TRUE, v |-> QInt(1)]} :
           CallTransforming("normalize", axis, inplace, total, Normalize(Exp, total, axis))

CallRescale ==
    /\ CanCall
    /\ \E axis \in Axes, inplace \in BOOLEAN :
         CallTransforming("rescale", axis, inplace, Total(10), Rescale(Exp, Total(10), axis))

CallScale ==
    /\ CanCall
    /\ \E axis \in Axes, inplace \in BOOLEAN :
         /\ ~AllFinite(Exp.data) \/ Empty(Exp) \/ ScaleExact(Exp, 1 - axis)
         /\ CallTransforming("scale", axis, inplace, <<>>, Scale(Exp, axis))

CallBinarize ==
    /\ CanCall
    /\ \E inplace \in BOOLEAN :
         CallTransforming("binarize", 0, inplace, 1, Binarize(Exp, 1))

CallLogN ==
    /\ CanCall
    /\ \E inplace \in BOOLEAN :
         /\ Log2Exact(Entries(Exp.data), 1)
         /\ CallTransforming("log_n", 0, inplace, 1, LogN(Exp, 1))

TransformArguments ==
    [steps : {<<>>, <<"log_n", "scale">>, <<"normalize", "binarize">>,
              <<"binarize", "normalize">>},
     kwargs : {<<>>,
               <<[key |-> <<"normalize", "total">>, v |-> 4]>>,
               <<[key |-> <<"scale", "axis">>, v |-> 1]>>,
               <<[key |-> <<"log_n", "inplace">>, v |-> 1]>>}]

CallTransform ==
    /\ CanCall
    /\ \E inplace \in BOOLEAN, arg \in TransformArguments :
         /\ StepsExact(Exp, arg.steps, arg.kwargs)
         /\ CallTransforming("transform", 0, inplace, arg, Transform(Exp, arg.steps, arg.kwargs))

CallNormalizeBySubsetFeatures ==
    /\ CanCall
    /\ \E inplace \in BOOLEAN, negate \in BOOLEAN, features \in {{"F1"}, {"F2", "pita"}} :
         CallTransforming("normalize_by_subset_features", 0, inplace,
              [features |-> features, negate |-> negate],
              NormalizeBySubsetFeatures(Exp, features, QInt(10), negate))

\* filter_mean is in another module: any set of the features is taken as the
\* set it keeps
CallNormalizeCompositional ==
    /\ CanCall
    /\ \E inplace \in BOOLEAN, comp \in SUBSET Range(Exp.cols) :
         CallTransforming("normalize_compositional", 0, inplace, comp,
              NormalizeCompositional(Exp, comp, QInt(10)))

Next ==
    \/ CallNormalizeCompositional
    \/ CallSortByData
    \/ CallSortCentroid
    \/ CallClusterData
    \/ CallNormalize
    \/ CallRescale
    \/ CallScale
    \/ CallBinarize
    \/ CallLogN
    \/ CallTransform
    \/ CallNormalizeBySubsetFeatures
    \/ ReadExperiment
    \/ CallReorder
    \/ CallFilterByMetadata
    \/ CallFilterByData
    \/ CallFilterIds
    \/ CallDownsample
    \/ CallSortByMetadata
    \/ CallSortIds

Spec == Init /\ [][Next]_vars

(***************************************************************************)
(* Claims about the calls, under Spec.                                     *)
(***************************************************************************)
\* I1 and I2 of an Experiment value: one sample_metadata row for every data
\* row, its index label the sample the row holds, and the same of
\* feature_metadata and the columns
Aligned(e) ==
    /\ Len(e.data) = Len(e.rows)
    /\ \A i \in DOMAIN e.data : Len(e.data[i]) = Len(e.cols)
    /\ Ids(e.smd) = e.rows
    /\ Ids(e.fmd) = e.cols

\* I3
UniqueIds(e) == IsUnique(Ids(e.smd)) /\ IsUnique(Ids(e.fmd))

Sorts == {"sort_by_data", "sort_by_metadata", "sort_ids", "sort_centroid", "cluster_data"}
Filters == {"filter_by_metadata", "filter_by_data", "filter_ids", "downsample"}
Transforms == {"normalize", "rescale", "scale", "binarize", "log_n", "transform",
               "normalize_by_subset_features", "normalize_compositional"}

\* C1: after read and any calls, in copy or in-place mode, every Experiment
\* has as many sample_metadata rows as data rows, in the order of the data
\* rows (I1), and as many feature_metadata rows as data columns, in the
\* order of the columns (I2).
C1_MetadataAlignedWithData == \A o \in DOMAIN heap : Aligned(heap[o])

\* two calls have been made, the second a sort of the samples by the data
\* that changed the order the first had left
C1_Witness ==
    /\ nops = MaxOps
    /\ last.op = "sort_by_data" /\ last.axis = 0 /\ last.ret # 0
    /\ heap[cur].rows # last.pre.rows
    /\ last.pre.rows # first.exp.rows
    /\ Len(heap[cur].rows) >= 2

\* C2: a sort or filter of an Experiment whose identifiers are unique on
\* both axes returns an Experiment whose identifiers are unique on both
\* axes, whatever the list given to sort_ids.
C2_SortsAndFiltersKeepIdsUnique ==
    (last.op \in Sorts \cup Filters /\ last.ret # 0 /\ UniqueIds(last.pre))
        => UniqueIds(heap[last.ret])

\* C9: a filter, sort or transform called with inplace=False leaves the
\* object passed in as it was and returns another object; called with
\* inplace=True it returns the object passed in.
C9_CopyOrInPlace ==
    last.op \in Sorts \cup Filters \cup Transforms =>
        /\ ~last.inplace => (heap[last.self] = last.pre /\ last.ret # last.self)
        /\ (last.inplace /\ last.ret # 0) => last.ret = last.self

\* normalize has returned a copy whose data differs from the original's
C9_Witness ==
    /\ last.op = "normalize" /\ ~last.inplace /\ last.ret # 0
    /\ heap[last.ret].data # last.pre.data
    /\ heap[last.ret].exp_metadata # last.pre.exp_metadata

\* C10: reorder(new_order, axis) returns the data rows (axis 0) or columns
\* (axis 1) at the positions of new_order, in that order, with the metadata
\* rows of that axis at the same positions; the other axis of the data and
\* its metadata table are as before.
C10_ReorderSelectsPositions ==
    (last.op = "reorder" /\ last.ret # 0) =>
        LET pre == last.pre
            post == heap[last.ret]
            new_order == last.arg
        IN IF last.axis = 0
           THEN /\ post.data = [i \in DOMAIN new_order |-> pre.data[new_order[i]]]
                /\ post.smd = [i \in DOMAIN new_order |-> pre.smd[new_order[i]]]
                /\ post.fmd = pre.fmd
                /\ \A i \in DOMAIN post.data : Len(post.data[i]) = Len(pre.cols)
           ELSE /\ post.data = [r \in DOMAIN pre.data |->
                                  [i \in DOMAIN new_order |-> pre.data[r][new_order[i]]]]
                /\ post.fmd = [i \in DOMAIN new_order |-> pre.fmd[new_order[i]]]
                /\ post.smd = pre.smd
                /\ Len(post.data) = Len(pre.data)

\* reorder has kept the third and the first of three samples, in that order
C10_Witness ==
    /\ last.op = "reorder" /\ last.axis = 0 /\ last.ret # 0
    /\ last.arg = <<3, 1>>
    /\ Ids(last.pre.smd) = MatrixSid
    /\ Ids(heap[last.ret].smd) = <<"S3", "S1">>

\* C11: reorder by p1 and then, on the same axis, by p2 gives the Experiment
\* that one reorder of the first Experiment by q gives, q[i] = p1[p2[i]].
C11_ReorderComposes ==
    (/\ prev.op = "reorder" /\ prev.ret # 0
     /\ last.op = "reorder" /\ last.ret # 0
     /\ prev.axis = last.axis) =>
        LET e == prev.pre
            post == heap[last.ret]
            p1 == prev.arg
            p2 == last.arg
            q == [i \in DOMAIN p2 |-> p1[p2[i]]]
        IN IF last.axis = 0
           THEN /\ post.data = [i \in DOMAIN q |-> e.data[q[i]]]
                /\ post.smd = [i \in DOMAIN q |-> e.smd[q[i]]]
                /\ post.fmd = e.fmd
           ELSE /\ post.data = [r \in DOMAIN e.data |-> [i \in DOMAIN q |-> e.data[r][q[i]]]]
                /\ post.fmd = [i \in DOMAIN q |-> e.fmd[q[i]]]
                /\ post.smd = e.smd

\* samples three and one were taken, then the second and the first of these
C11_Witness ==
    /\ prev.op = "reorder" /\ prev.ret # 0 /\ prev.axis = 0 /\ prev.arg = <<3, 1>>
    /\ last.op = "reorder" /\ last.ret # 0 /\ last.axis = 0 /\ last.arg = <<2, 1>>
    /\ Ids(heap[last.ret].smd) = <<"S1", "S3">>

\* C12: the identifiers filter_by_metadata(f, S) keeps and those
\* filter_by_metadata(f, S, negate=True) keeps have none in common, and
\* together they are the identifiers the axis had.
C12_FilterAndNegationPartition ==
    (last.op = "filter_by_metadata" /\ last.ret # 0) =>
        LET other == FilterByMetadata(last.pre, last.arg.select, last.axis, ~last.arg.negate)
            kept == Range(Ids(Table(heap[last.ret], last.axis)))
            rest == Range(Ids(Table(other.exp, last.axis)))
        IN /\ other.ok
           /\ kept \cap rest = {}
           /\ kept \cup rest = Range(Ids(Table(last.pre, last.axis)))

\* samples were filtered on a field that one sample has no value of; some
\* were kept and some were not
C12_Witness ==
    /\ last.op = "filter_by_metadata" /\ last.ret # 0 /\ last.axis = 0
    /\ \E i \in DOMAIN last.pre.smd : last.pre.smd[i].v = NaN
    /\ heap[last.ret].smd # <<>>
    /\ Len(heap[last.ret].smd) < Len(last.pre.smd)

\* an Experiment with nothing left on the axis and the other axis as in pre
EmptiedOn(e, pre, axis) ==
    IF axis = 0
    THEN /\ e.data = <<>> /\ e.smd = <<>>
         /\ e.fmd = pre.fmd /\ e.cols = pre.cols
    ELSE /\ e.fmd = <<>> /\ e.cols = <<>>
         /\ e.smd = pre.smd /\ Len(e.data) = Len(pre.data)
         /\ \A i \in DOMAIN e.data : e.data[i] = <<>>

\* C13: filter_by_metadata with a selection that no entry of the axis
\* matches, and filter_by_data with a cutoff that no row / column reaches,
\* raise nothing and return an Experiment with nothing on that axis and the
\* other axis as it was.
C13_NothingMatchedGivesEmptyAxis ==
    /\ (/\ last.op = "filter_by_metadata"
        /\ HasField(last.pre, last.axis)
        /\ \A i \in DOMAIN Table(last.pre, last.axis) :
              (Table(last.pre, last.axis)[i].v \in last.arg.select) = last.arg.negate)
         => (last.ret # 0 /\ EmptiedOn(heap[last.ret], last.pre, last.axis))
    /\ (/\ last.op = "filter_by_data"
        /\ \A i \in DOMAIN AxisSums(last.pre, last.axis) :
              ~QLeq(QInt(last.arg), AxisSums(last.pre, last.axis)[i]))
         => (last.ret # 0 /\ EmptiedOn(heap[last.ret], last.pre, last.axis))

\* no sample of three has the value selected: none is left, the two features
\* are
C13_Witness ==
    /\ last.op = "filter_by_metadata" /\ last.axis = 0 /\ ~last.arg.negate
    /\ last.arg.select = {"z"}
    /\ Len(last.pre.smd) = 3 /\ last.ret # 0
    /\ heap[last.ret].smd = <<>> /\ Len(heap[last.ret].fmd) = 2

\* C14: filter_by_data('sum_abundance', axis, cutoff) keeps exactly the rows /
\* columns whose sum is at least cutoff (a sum equal to cutoff included), in
\* the order they had.
C14_FilterByDataKeepsSumsFromCutoff ==
    (last.op = "filter_by_data" /\ last.ret # 0) =>
        LET sums == AxisSums(last.pre, last.axis)
            keep == Ascending({i \in DOMAIN sums :
                        \/ sums[i] = QInt(last.arg)
                        \/ QLess(QInt(last.arg), sums[i])})
            post == heap[last.ret]
        IN /\ Table(post, last.axis) = SelectPos(Table(last.pre, last.axis), keep)
           /\ AxisSums(post, last.axis) = SelectPos(sums, keep)

\* samples with sums 4, 4 and 0 and cutoff 4: the two whose sum is the cutoff
\* are kept
C14_Witness ==
    /\ last.op = "filter_by_data" /\ last.axis = 0 /\ last.arg = 4 /\ last.ret # 0
    /\ AxisSums(last.pre, 0) = <<QInt(4), QInt(4), QInt(0)>>
    /\ Ids(heap[last.ret].smd) = <<"S1", "S2">>

\* the entries of post on the axis are distinct entries of pre, metadata and
\* data together, and the other axis is as in pre
TakenFrom(post, pre, axis) ==
    \E pos \in DistinctSeqs(1..Extent(pre, axis), Extent(pre, axis)) :
        /\ Table(post, axis) = SelectPos(Table(pre, axis), pos)
        /\ Table(post, 1 - axis) = Table(pre, 1 - axis)
        /\ IF axis = 0 THEN post.data = SelectPos(pre.data, pos)
           ELSE post.data = [i \in DOMAIN pre.data |-> SelectPos(pre.data[i], pos)]

\* C15: the Experiment that downsample(field, axis, num_keep) returns has, of
\* every value of the field, exactly num_keep members (num_keep=None: as many
\* as the smallest group had), all of them entries of the original, and the
\* other axis unchanged.
C15_DownsampleEvensGroups ==
    (last.op = "downsample" /\ last.ret # 0) =>
        LET t == Table(last.pre, last.axis)
            post == heap[last.ret]
            n == IF last.arg = <<>> THEN SmallestGroup(t) ELSE last.arg[1]
        IN /\ \A g \in {t[i].v : i \in DOMAIN t} :
                  Cardinality(GroupPositions(Table(post, last.axis), g)) = n
           /\ TakenFrom(post, last.pre, last.axis)

\* groups of two samples and of one, num_keep=None: one sample of each is left
C15_Witness ==
    /\ last.op = "downsample" /\ last.axis = 0 /\ last.arg = <<>> /\ last.ret # 0
    /\ Len(last.pre.smd) = 3
    /\ Cardinality(GroupPositions(last.pre.smd, "a")) = 2
    /\ Cardinality(GroupPositions(last.pre.smd, "b")) = 1
    /\ Len(heap[last.ret].smd) = 2

ReadNormalized == cur # 0 /\ first.ok /\ inp.normalize # <<>>

AllZero(v) == \A k \in DOMAIN v : v[k] = QInt(0)
NonNegative(v) == \A k \in DOMAIN v : QLeq(QInt(0), v[k])

\* a row after normalize to total t: an all-zero row is as it was; of any
\* other row the absolute values sum to t, and so do the entries when none
\* was negative
RowNormalized(before, after, t) ==
    IF AllZero(before) THEN after = before
    ELSE /\ QSum([k \in DOMAIN after |-> QAbs(after[k])]) = t
         /\ NonNegative(before) => QSum(after) = t

\* C17 (as stated): after normalize(total=T, axis=0), and in the Experiment
\* that read(..., normalize=T) returns, every row of data sums to T, an
\* all-zero row included.
C17_AsStated ==
    /\ (last.op = "normalize" /\ last.axis = 0 /\ last.ret # 0) =>
          \A i \in DOMAIN heap[last.ret].data :
              QSum(heap[last.ret].data[i]) = last.arg.v
    /\ ReadNormalized =>
          \A i \in DOMAIN first.exp.data :
              QSum(first.exp.data[i]) = inp.normalize[1].v

\* C17 (amended): after normalize(total=T, axis=0) that returns, every row
\* that was not all-zero has absolute values that sum to T (entries that sum
\* to T when none was negative), and an all-zero row is still all-zero; the
\* rows of the Experiment that read(..., normalize=T) returns sum to T or are
\* all-zero.
C17_RowsSumToTotalUnlessZero ==
    /\ (last.op = "normalize" /\ last.axis = 0 /\ last.ret # 0) =>
          \A i \in DOMAIN heap[last.ret].data :
              RowNormalized(last.pre.data[i], heap[last.ret].data[i], last.arg.v)
    /\ ReadNormalized =>
          \A i \in DOMAIN first.exp.data :
              \/ AllZero(first.exp.data[i])
              \/ QSum(first.exp.data[i]) = inp.normalize[1].v

\* normalize to 10 of samples with sums 4, 4 and 0: the sums are 10, 10, 0
C17_Witness ==
    /\ last.op = "normalize" /\ last.axis = 0 /\ last.ret # 0
    /\ last.arg.v = QInt(10)
    /\ AxisSums(last.pre, 0) = <<QInt(4), QInt(4), QInt(0)>>
    /\ AxisSums(heap[last.ret], 0) = <<QInt(10), QInt(10), QInt(0)>>

\* C18: normalize with a boolean total, or a total that is not above 0,
\* raises ValueError and the Experiment it was called on, data and
\* exp_metadata['normalized'] included, is as it was, in place or not; when
\* normalize returns, exp_metadata['normalized'] of the result is total.
C18_NormalizeChecksTotalFirst ==
    /\ (last.op = "normalize" /\ (last.arg.isbool \/ QLeq(last.arg.v, QInt(0)))) =>
          /\ last.ret = 0
          /\ last.err \in {"ValueError: total not numeric",
                           "ValueError: total must be positive"}
          /\ heap[last.self] = last.pre
    /\ (last.op = "normalize" /\ last.ret # 0) =>
          heap[last.ret].exp_metadata.normalized = <<last.arg.v>>

\* normalize(total=0, inplace=True) on an Experiment normalized to 10
C18_Witness ==
    /\ last.op = "normalize" /\ last.inplace /\ last.arg = Total(0)
    /\ last.pre.exp_metadata.normalized = <<QInt(10)>>
    /\ last.ret = 0 /\ heap[last.self] = last.pre

\* C19: the Experiment that normalize, rescale, scale, binarize, log_n,
\* normalize_by_subset_features, normalize_compositional or transform returns
\* has the sample_metadata and feature_metadata tables of the Experiment it
\* was called on, the same identifiers in the same order, and data of the
\* same shape.
C19_TransformsKeepMetadataAndShape ==
    (last.op \in Transforms /\ last.ret # 0) =>
        LET post == heap[last.ret]
        IN /\ post.smd = last.pre.smd /\ post.rows = last.pre.rows
           /\ post.fmd = last.pre.fmd /\ post.cols = last.pre.cols
           /\ Len(post.data) = Len(last.pre.data)
           /\ \A i \in DOMAIN post.data : Len(post.data[i]) = Len(last.pre.data[i])

\* normalize_by_subset_features has changed the data of three samples and two
\* features
C19_Witness ==
    /\ last.op = "normalize_by_subset_features" /\ last.ret # 0
    /\ Len(last.pre.smd) = 3 /\ Len(last.pre.fmd) = 2
    /\ heap[last.ret].data # last.pre.data
    /\ heap[last.ret].smd = last.pre.smd /\ heap[last.ret].fmd = last.pre.fmd

\* the keyword arguments whose key is '<step>__<param>'
KeywordsOf(kwargs, step) == SelectSeq(kwargs, LAMBDA kw : kw.key[1] = step)

\* the step with its own keyword arguments, on what the steps before it gave
Then(r, step, kwargs) ==
    IF r.ok THEN Step(r.exp, step, KeywordsOf(kwargs, step)) ELSE r

\* the steps one after another, each with its own keyword arguments
RECURSIVE Composition(_, _, _)
Composition(e, steps, kwargs) ==
    IF steps = <<>> THEN OpOk(e)
    ELSE Then(Composition(e, SubSeq(steps, 1, Len(steps) - 1), kwargs),
              steps[Len(steps)], kwargs)

\* C20: transform(steps, **kwargs) returns what the steps give when they are
\* applied one after another in the order of the list, each with the keyword
\* arguments named '<its name>__<param>' and no others, and raises when one
\* of them raises; the steps work on the Experiment itself when inplace=True
\* and on one copy of it otherwise.
C20_TransformComposesSteps ==
    (/\ last.op = "transform"
     /\ \A i \in DOMAIN last.arg.kwargs : last.arg.kwargs[i].key[2] # "inplace") =>
        LET expected == Composition(last.pre, last.arg.steps, last.arg.kwargs)
        IN IF expected.ok
           THEN /\ last.ret # 0
                /\ heap[last.ret] = expected.exp
                /\ last.ret = last.self <=> last.inplace
                /\ ~last.inplace => heap[last.self] = last.pre
           ELSE last.ret = 0

\* transform([normalize, binarize], normalize__total=4) of samples (4, 0),
\* (2, 2), (0, 0): normalized to 4 and then binarized
C20_Witness ==
    /\ last.op = "transform" /\ last.ret # 0
    /\ last.arg.steps = <<"normalize", "binarize">>
    /\ last.arg.kwargs = <<[key |-> <<"normalize", "total">>, v |-> 4]>>
    /\ last.pre.data = MatrixData
    /\ heap[last.ret].data = QMatrix(<< <<1, 0>>, <<1, 1>>, <<0, 0>> >>)
    /\ heap[last.ret].exp_metadata.normalized = <<QInt(4)>>

\* C21: transform with a keyword '<step>__inplace' raises ValueError and no
\* step has run: the Experiment it was called on is as it was, with
\* inplace=True too.
C21_TransformRejectsInplaceKeyword ==
    (/\ last.op = "transform"
     /\ \E i \in DOMAIN last.arg.kwargs : last.arg.kwargs[i].key[2] = "inplace") =>
        /\ last.ret = 0
        /\ last.err \in {"ValueError: inplace", "ValueError: unpack"}
        /\ heap[last.self] = last.pre

\* transform([normalize, binarize], inplace=True, log_n__inplace=1) on data
\* that the two steps would change
C21_Witness ==
    /\ last.op = "transform" /\ last.inplace
    /\ last.arg.steps = <<"normalize", "binarize">>
    /\ last.arg.kwargs = <<[key |-> <<"log_n", "inplace">>, v |-> 1]>>
    /\ last.pre.data = MatrixData
    /\ last.ret = 0 /\ heap[last.self] = last.pre

\* the positions of the reference features of the last call: the features
\* not named when negate, the features named otherwise
ReferencePositions ==
    Ascending({j \in DOMAIN last.pre.fmd :
                  IF last.arg.negate THEN last.pre.fmd[j].id \notin last.arg.features
                  ELSE last.pre.fmd[j].id \in last.arg.features})

\* the sum of a row over the reference features
ReferenceSum(row) == QSum(SelectPos(row, ReferencePositions))

\* the total of the calls of normalize_by_subset_features
SubsetTotal == QInt(10)

\* C22 (as stated): after normalize_by_subset_features every sample's sum
\* over the reference features is total.
C22_AsStated ==
    (last.op = "normalize_by_subset_features" /\ last.ret # 0) =>
        \A i \in DOMAIN heap[last.ret].data :
            ReferenceSum(heap[last.ret].data[i]) = SubsetTotal

\* C22 (amended): normalize_by_subset_features gives every entry of a sample
\* times total over the sample's sum over the reference features; a sample
\* whose reference sum is finite and not zero then has the reference sum
\* total, and a sample whose reference sum is zero has no finite entry.
C22_RowsOverReferenceSum ==
    (last.op = "normalize_by_subset_features" /\ last.ret # 0) =>
        \A i \in DOMAIN heap[last.ret].data :
            LET before == last.pre.data[i]
                after == heap[last.ret].data[i]
                ref == ReferenceSum(before)
            IN /\ \A j \in DOMAIN after :
                      after[j] = QDiv(QMul(SubsetTotal, before[j]), ref)
               /\ (IsFinite(ref) /\ ref # QInt(0)) => ReferenceSum(after) = SubsetTotal
               /\ ref = QInt(0) => \A j \in DOMAIN after : ~IsFinite(after[j])

\* features=['F1'], negate=True on samples (4, 0), (2, 2), (0, 0): the second
\* becomes (10, 10), total over F2 and twice the total over the row; the
\* others have the reference sum 0
C22_Witness ==
    /\ last.op = "normalize_by_subset_features" /\ last.ret # 0
    /\ last.arg.features = {"F1"} /\ last.arg.negate
    /\ last.pre.data = MatrixData
    /\ heap[last.ret].data[2] = <<QInt(10), QInt(10)>>
    /\ QSum(heap[last.ret].data[2]) = QInt(20)
    /\ ~IsFinite(heap[last.ret].data[1][1])

\* C23: the Experiment that scale or log_n returns, or worked on in place,
\* is dense, whatever it was before; the Experiment that normalize, rescale
\* or binarize returns is sparse when the one it was called on was sparse,
\* and dense when that was dense.
C23_RepresentationAfterTransforms ==
    /\ (last.op \in {"scale", "log_n"} /\ last.ret # 0) => ~heap[last.ret].sparse
    /\ (last.op \in {"scale", "log_n"} /\ last.inplace) => ~heap[last.self].sparse
    /\ (last.op \in {"normalize", "rescale", "binarize"} /\ last.ret # 0) =>
          heap[last.ret].sparse = last.pre.sparse

\* log_n of a sparse Experiment has returned a dense one, and before it
\* binarize of a sparse Experiment a sparse one
C23_Witness ==
    /\ prev.op = "binarize" /\ prev.ret # 0 /\ prev.pre.sparse
    /\ last.op = "log_n" /\ last.ret # 0 /\ last.pre.sparse
    /\ ~heap[last.ret].sparse

\* the key values of the last call of sort_by_data
SortValues ==
    LET vectors == DataSubset(last.pre, last.axis, last.arg.subset)
    IN [k \in DOMAIN vectors |-> KeyOf(last.arg.key, vectors[k])]

\* C24: sort_by_data(axis, key) of sparse or dense data with something to
\* sort returns the rows / columns by ascending key value, those of equal
\* key value in the order they had, and with reverse=True in the reverse of
\* that order.
C24_SortByDataIsStable ==
    /\ (last.op = "sort_by_data" /\ last.arg.subset = <<>> /\ ~Empty(last.pre)) =>
          last.ret # 0
    /\ (last.op = "sort_by_data" /\ last.ret # 0 /\ ~Empty(last.pre)) =>
          LET ascending == MergeArgsort(SortValues)
              order == IF last.arg.reverse THEN Reversed(ascending) ELSE ascending
          IN Table(heap[last.ret], last.axis) = SelectPos(Table(last.pre, last.axis), order)

\* C25: sort_ids(ids, axis) of an Experiment with unique identifiers returns;
\* what it returns has on the axis first the identifiers of ids that the
\* axis holds, in the order of ids, then all the others in the order they
\* had; identifiers of ids that the axis does not hold play no part, and
\* every identifier of the axis is still there.
C25_SortIdsPutsIdsFirst ==
    /\ (last.op = "sort_ids" /\ UniqueIds(last.pre)) => last.ret # 0
    /\ (last.op = "sort_ids" /\ last.ret # 0) =>
          LET index == Ids(Table(last.pre, last.axis))
              known == SelectSeq(last.arg, LAMBDA c : c \in Range(index))
              others == SelectSeq(index, LAMBDA c : c \notin Range(last.arg))
              sorted == Ids(Table(heap[last.ret], last.axis))
          IN /\ sorted = known \o others
             /\ Range(sorted) = Range(index)
             /\ Table(heap[last.ret], 1 - last.axis) = Table(last.pre, 1 - last.axis)

\* sort_ids(['pita', 'S3']) of S1, S2, S3 gave S3, S1, S2, of which
\* sort_ids(['S2', 'S3']) gives S2, S3, S1
C25_Witness ==
    /\ prev.op = "sort_ids" /\ prev.axis = 0 /\ prev.ret # 0
    /\ prev.arg = <<"pita", "S3">>
    /\ Ids(prev.pre.smd) = <<"S1", "S2", "S3">>
    /\ last.op = "sort_ids" /\ last.axis = 0 /\ last.ret # 0
    /\ last.arg = <<"S2", "S3">>
    /\ Ids(last.pre.smd) = <<"S3", "S1", "S2">>
    /\ Ids(heap[last.ret].smd) = <<"S2", "S3", "S1">>

(***************************************************************************)
(* sort_abundance (sorting.py:322-354): a read, then calls of               *)
(* sort_abundance.                                                         *)
(***************************************************************************)
\* the columns of sample_metadata: 'field', when the table was read from a
\* file, and 'id', the first column of the file or the copy of the index
HasColumn(e, k) == k = "id" \/ (k = "field" /\ HasField(e, 0))

\* the value of a column in a row; the row of a sample the file lacks holds
\* NaN in every column
ColumnValue(e, row, k) ==
    IF k = "field" THEN row.v
    ELSE IF HasField(e, 0) /\ row.v = NaN THEN NaN ELSE row.id

\* exp.sample_metadata[k].isin(v).values
IsIn(e, entry) == [i \in DOMAIN e.smd |-> ColumnValue(e, e.smd[i], entry.k) \in entry.v]

\* select (sorting.py:346-353): subset is <<>> for None or <<entries>>, the
\* items of the dict in their order.  Every pass of the loop combines the
\* dict itself, which is true, with the mask of its entry: the mask of the
\* last entry is what is left
Select(e, entries) ==
    IF entries = <<>> THEN [i \in DOMAIN e.smd |-> TRUE]
    ELSE IsIn(e, entries[Len(entries)])

\* sort_abundance: sort_by_data on the features over the selected samples
SortAbundance(e, subset, key, reverse) ==
    IF subset = <<>> THEN SortByData(e, 1, <<>>, key, reverse)
    ELSE IF \E i \in DOMAIN subset[1] : ~HasColumn(e, subset[1][i].k)
    THEN {OpErr(e, "KeyError")}
    ELSE SortByData(e, 1, <<TruePositions(Select(e, subset[1]))>>, key, reverse)

\* three samples and two features; the second sample has more of F2
AbundanceData == QMatrix(<< <<4, 0>>, <<1, 2>>, <<0, 0>> >>)
AbundanceFile == [sid |-> MatrixSid, oid |-> MatrixOid, data |-> AbundanceData, md |-> <<>>]

AbundanceInputs ==
    [data_file : {AbundanceFile},
     sample_metadata_file : {<<>>, <<TableOf(SampleFileIds, {"S1", "S2", "S3"})>>,
                             <<TableOf(SampleFileIds, {"S1", "S3", "S9"})>>},
     feature_metadata_file : {<<>>},
     drop : {FALSE},
     sparse : BOOLEAN,
     data_file_type : {"biom"},
     normalize : {<<>>}]

ReadAbundanceFiles ==
    /\ cur = 0
    /\ \E a \in AbundanceInputs :
        /\ Read(a).ok
        /\ inp' = a
        /\ out' = Read(a)
        /\ first' = Read(a)
        /\ heap' = [heap EXCEPT ![1] = Read(a).exp]
        /\ cur' = 1
    /\ UNCHANGED <<last, prev, nops>>

SubsetArguments ==
    {<<>>,
     << <<>> >>,
     << <<[k |-> "field", v |-> {"a"}]>> >>,
     << <<[k |-> "id", v |-> {"S2", "S3"}], [k |-> "field", v |-> {"a"}]>> >>,
     << <<[k |-> "field", v |-> {"a"}], [k |-> "id", v |-> {"S2", "S3"}]>> >>,
     << <<[k |-> "id", v |-> {"S1"}], [k |-> "field", v |-> {"b"}]>> >>}

\* the subset that sort_by_data is given
SelectArgument(e, subset) ==
    IF subset = <<>> \/ \E i \in DOMAIN subset[1] : ~HasColumn(e, subset[1][i].k)
    THEN <<>>
    ELSE <<TruePositions(Select(e, subset[1]))>>

CallSortAbundance ==
    /\ CanCall
    /\ \E inplace \in BOOLEAN, reverse \in BOOLEAN, key \in {"mean", "log_mean"} :
         \E subset \in SubsetArguments :
           /\ SortByDataExact(Exp, 1, SelectArgument(Exp, subset), key)
           /\ \E r \in SortAbundance(Exp, subset, key, reverse) :
                CallReordering("sort_abundance", 1, inplace,
                               [subset |-> subset, key |-> key, reverse |-> reverse], r)

NextAbundance == ReadAbundanceFiles \/ CallSortAbundance

SpecAbundance == Init /\ [][NextAbundance]_vars

\* the samples that match every entry of the subset of the last call
Matching ==
    LET e == last.pre
    IN IF last.arg.subset = <<>> THEN DOMAIN e.smd
       ELSE {i \in DOMAIN e.smd :
                \A n \in DOMAIN last.arg.subset[1] : IsIn(e, last.arg.subset[1][n])[i]}

\* the key value of a feature of the last call over the matching samples
AbundanceOver(j) ==
    KeyOf(last.arg.key, SelectPos(Column(last.pre.data, j), Ascending(Matching)))

\* the position a feature of the result had before the call
ColumnBefore(id) == CHOOSE j \in DOMAIN last.pre.cols : last.pre.cols[j] = id

\* C27: sort_abundance(subset) returns all the samples as they were and the
\* features in the order of their key value over the samples that match
\* every entry of subset (all samples for subset=None), descending with
\* reverse=True.
C27_SortAbundanceOverMatchingSamples ==
    (last.op = "sort_abundance" /\ last.ret # 0 /\ Matching # {}) =>
        LET post == heap[last.ret]
            value(j) == AbundanceOver(ColumnBefore(post.cols[j]))
        IN /\ post.smd = last.pre.smd
           /\ Range(post.cols) = Range(last.pre.cols)
           /\ \A i, j \in DOMAIN post.cols :
                 i < j => IF last.arg.reverse THEN ~Before(value(i), value(j))
                          ELSE ~Before(value(j), value(i))

\* the Experiment the last call returned holds the identifiers of the one it
\* was called on, each once, and every data value with the sample and the
\* feature it belonged to
OnlyPermuted ==
    LET e == last.pre
        post == heap[last.ret]
        row(id) == CHOOSE i \in DOMAIN e.rows : e.rows[i] = id
        col(id) == CHOOSE j \in DOMAIN e.cols : e.cols[j] = id
    IN /\ IsUnique(post.rows) /\ Range(post.rows) = Range(e.rows)
       /\ IsUnique(post.cols) /\ Range(post.cols) = Range(e.cols)
       /\ Ids(post.smd) = post.rows /\ Ids(post.fmd) = post.cols
       /\ Len(post.data) = Len(post.rows)
       /\ \A i \in DOMAIN post.data :
             /\ Len(post.data[i]) = Len(post.cols)
             /\ \A j \in DOMAIN post.data[i] :
                   post.data[i][j] = e.data[row(post.rows[i])][col(post.cols[j])]

\* C28: sort_by_data, sort_by_metadata, sort_centroid, cluster_data and
\* sort_ids of an Experiment with unique identifiers return the same
\* samples and features, each once, every data value with its sample and
\* feature; with inplace=False the data of the Experiment they were called
\* on are as before, whatever the key computed.
C28_SortsOnlyPermute ==
    (last.op \in Sorts /\ UniqueIds(last.pre)) =>
        /\ last.ret # 0 => OnlyPermuted
        /\ ~last.inplace => heap[last.self].data = last.pre.data

(***************************************************************************)
(* Claims about read, under SpecRead.                                      *)
(***************************************************************************)
Called == inp # NullInput
GivenS == inp.sample_metadata_file # <<>>
GivenF == inp.feature_metadata_file # <<>>
SourceSampleIds == Range(Ids(inp.sample_metadata_file[1]))
SourceFeatureIds == Range(Ids(inp.feature_metadata_file[1]))
MatrixSamples == Range(inp.data_file.sid)
MatrixFeatures == Range(inp.data_file.oid)

\* s lists distinct elements of t in the order they have in t
InOrderOf(s, t) ==
    /\ IsUnique(s)
    /\ Range(s) \subseteq Range(t)
    /\ \A i, j \in DOMAIN s : i < j =>
         (CHOOSE k \in DOMAIN t : t[k] = s[i]) < (CHOOSE k \in DOMAIN t : t[k] = s[j])

\* C3: given a sample-metadata source, the sample_metadata index of the
\* Experiment read returns is the matrix's sample-id sequence, in matrix order,
\* when drop is not set; a sample only the metadata source has is never in it.
C3_SampleIndexIsMatrixOrder ==
    (Called /\ out.ok /\ GivenS) =>
        /\ ~inp.drop => Ids(out.exp.smd) = inp.data_file.sid
        /\ \A id \in SourceSampleIds \ MatrixSamples : id \notin Range(Ids(out.exp.smd))

\* a read that returned, with a source listing a sample the matrix lacks
\* before matrix samples, in another order than the matrix's
C3_Witness ==
    /\ Called /\ out.ok /\ GivenS /\ ~inp.drop
    /\ Ids(inp.sample_metadata_file[1]) = <<"S9", "S3", "S1">>

\* C4: a matrix sample without a row in the sample-metadata source is kept
\* when drop is False and removed from the data rows and from sample_metadata
\* when drop is True; every sample with metadata is kept either way, and what
\* is kept is in matrix order.
C4_DropRemovesSamplesWithoutMetadata ==
    (Called /\ out.ok /\ GivenS) =>
        /\ \A id \in MatrixSamples \cap SourceSampleIds :
              id \in Range(out.exp.rows) /\ id \in Range(Ids(out.exp.smd))
        /\ \A id \in MatrixSamples \ SourceSampleIds :
              /\ inp.drop => id \notin Range(out.exp.rows) /\ id \notin Range(Ids(out.exp.smd))
              /\ ~inp.drop => id \in Range(out.exp.rows) /\ id \in Range(Ids(out.exp.smd))
        /\ InOrderOf(out.exp.rows, inp.data_file.sid)
        /\ Ids(out.exp.smd) = out.exp.rows
        /\ Len(out.exp.data) = Len(out.exp.rows)

\* a read with drop=True that removed a sample lacking metadata and kept two
C4_Witness ==
    /\ Called /\ out.ok /\ GivenS /\ inp.drop
    /\ SourceSampleIds = {"S1", "S3"}
    /\ out.exp.rows = <<"S1", "S3">>

\* C5 as stated: the feature side mirrors the sample side, a matrix feature
\* the feature-metadata source lacks being removed when drop=True.
C5_AsStated ==
    (Called /\ out.ok /\ GivenF) =>
        /\ \A id \in SourceFeatureIds \ MatrixFeatures : id \notin Range(Ids(out.exp.fmd))
        /\ InOrderOf(Ids(out.exp.fmd), inp.data_file.oid)
        /\ \A id \in MatrixFeatures \ SourceFeatureIds :
              /\ inp.drop => id \notin Range(out.exp.cols) /\ id \notin Range(Ids(out.exp.fmd))
              /\ ~inp.drop => id \in Range(out.exp.cols) /\ id \in Range(Ids(out.exp.fmd))

\* C5, amended: features only the feature-metadata source has are dropped, the
\* feature_metadata table is in the matrix's feature-id order, and a matrix
\* feature the source lacks is retained whether or not drop is set (drop
\* removes samples only).
C5_FeaturesAlignedNeverDropped ==
    (Called /\ out.ok /\ GivenF) =>
        /\ \A id \in SourceFeatureIds \ MatrixFeatures : id \notin Range(Ids(out.exp.fmd))
        /\ Ids(out.exp.fmd) = inp.data_file.oid
        /\ out.exp.cols = inp.data_file.oid
        /\ \A i \in DOMAIN out.exp.data : Len(out.exp.data[i]) = Len(inp.data_file.oid)

\* a read with drop=True whose feature source lacks a matrix feature and
\* holds one the matrix lacks
C5_Witness ==
    /\ Called /\ out.ok /\ GivenF /\ inp.drop
    /\ Ids(inp.feature_metadata_file[1]) = <<"F9", "F2">>

\* C6: for a fixed matrix and fixed metadata rows, read returns the same
\* aligned sample_metadata and feature_metadata tables whatever the order of
\* the rows in the metadata sources.
C6_RowOrderOfSourcesIrrelevant ==
    Called =>
        /\ out.ok = first.ok
        /\ out.ok => /\ out.exp.smd = first.exp.smd
                     /\ out.exp.fmd = first.exp.fmd

\* a read that returned, both sources given with their rows in another order
\* than at the first read
C6_Witness ==
    /\ Called /\ out.ok /\ GivenS /\ GivenF
    /\ Ids(inp.sample_metadata_file[1]) = <<"S3", "S1", "S2">>
    /\ Ids(inp.feature_metadata_file[1]) = <<"F2", "F1">>

\* C7: with a format other than the supported ones, read raises (ValueError,
\* 'unkown data_file_type') before it loads any file, a metadata source
\* included, and returns no Experiment.
C7_UnknownFormatRaisesFirst ==
    (Called /\ inp.data_file_type \notin {"biom", "openms", "openms_transpose", "qiime2"}) =>
        /\ ~out.ok
        /\ out.err = "ValueError: unkown data_file_type"
        /\ out.io = <<>>
        /\ out.exp = NullExp

\* a read of an unsupported format given both metadata sources
C7_Witness ==
    /\ Called /\ inp.data_file_type = "csv" /\ GivenS /\ GivenF /\ ~out.ok

====
